---- MODULE Spec2Model ----
(***************************************************************************)
(* A model of the dxfuse metadata database (metadata_db.go) and of the     *)
(* kernel requests that drive it.  The sqlite store is three tables        *)
(* (namespace, data_objects, directories); a transaction works on a copy   *)
(* of the tables and the committed tables change at Commit only.  Paths    *)
(* and names are strings, modelled as sequences of one-character strings.  *)
(***************************************************************************)
EXTENDS Integers, Sequences, FiniteSets, TLC

VARIABLES
    db,         \* the committed sqlite store: [schema, ns, dobjs, dirs]
    inodeCnt,   \* fsys.inodeCnt
    boot,       \* lifecycle of the mount: "new", "inited", "mounted", "failed"
    manifest,   \* the manifest handed to MetadataDbPopulateRoot (index into Manifests, 0 before)
    mutex,      \* fsys.mutex: 0 when free, else the thread holding it
    pool,       \* number of clients in fsys.httpClientPool
    th,         \* per kernel thread: the request it is serving and where it is
    crashed,    \* a panic terminated the process
    faults,     \* number of remote / store errors injected so far
    filesNew,   \* number of files the platform has created for DxFileNew
    hist,       \* history: what each population call did (describes, commits)
    options,    \* fsys.options: [ReadOnly], from the command line
    fugs,       \* fsys.fugs, the background upload state, and the platform's side of it
    call,       \* a function of the program called on inputs of its own: [fn, .., ret]
    cli         \* the launcher (main) and the daemon it starts: arguments, position, exit code

\* the state of a mounted filesystem
mount == <<db, inodeCnt, boot, manifest, mutex, pool, th, crashed, faults, filesNew, hist,
           options>>

vars == <<mount, fugs, call, cli>>

-----------------------------------------------------------------------------
(* Bounds *)

MaxFaults  == 1
MaxInode   == 8
HistCap    == 2
MaxCreates == 1
MaxUpdates == 1
MaxWrites  == 2

(* Program constants *)

nsDirType                == 1
nsDataObjType            == 2
dirDoesNotExist          == 1
dirExistsButNotPopulated == 2
dirExistAndPopulated     == 3
InodeInvalid             == 0
InodeRoot                == 1
HttpClientPoolSize       == 4
FK_Regular               == 10
FK_Symlink               == 11
FK_Applet                == 12
FK_Workflow              == 13
FK_Record                == 14
FK_Database              == 15
FK_Other                 == 16

-----------------------------------------------------------------------------
(* Strings and paths *)

EmptyStr == << >>
RootPath == <<"/">>

HasPrefix(s, p) == Len(p) <= Len(s) /\ SubSeq(s, 1, Len(p)) = p

\* index of the last "/" of s, 0 when there is none
LastSlash(s) ==
    IF \E i \in 1..Len(s) : s[i] = "/"
    THEN CHOOSE i \in 1..Len(s) : s[i] = "/" /\ \A j \in (i+1)..Len(s) : s[j] # "/"
    ELSE 0

RECURSIVE CollapseSlashes(_)
CollapseSlashes(s) ==
    IF Len(s) <= 1 THEN s
    ELSE IF s[1] = "/" /\ s[2] = "/" THEN CollapseSlashes(Tail(s))
    ELSE <<s[1]>> \o CollapseSlashes(Tail(s))

\* filepath.Clean on paths without "." and ".." elements
Clean(s) ==
    LET c == CollapseSlashes(s) IN
    IF c = EmptyStr THEN <<".">>
    ELSE IF Len(c) > 1 /\ c[Len(c)] = "/" THEN SubSeq(c, 1, Len(c) - 1)
    ELSE c

\* filepath.Dir
FilepathDir(s) ==
    LET i == LastSlash(s) IN
    IF i = 0 THEN <<".">> ELSE Clean(SubSeq(s, 1, i))

\* filepath.Base
FilepathBase(s) ==
    LET c == Clean(s)
        i == LastSlash(c) IN
    IF c = RootPath THEN RootPath ELSE SubSeq(c, i + 1, Len(c))

splitPath(fullPath) ==
    IF fullPath = RootPath
    THEN [parent |-> EmptyStr, base |-> RootPath]
    ELSE [parent |-> FilepathDir(fullPath), base |-> FilepathBase(fullPath)]

boolToInt(b) == IF b THEN 1 ELSE 0

MinInt64(x, y) == IF x > y THEN y ELSE x
MaxInt64(x, y) == IF x < y THEN y ELSE x

-----------------------------------------------------------------------------
(* The sqlite store.  A transaction is a working copy `st` of the tables,   *)
(* together with the inode counter (which is NOT part of the store and is   *)
(* not rolled back), the number n of statements run so far, and failAt, the *)
(* statement of this transaction that meets a store error (0: none).        *)

MaxStmts == 14

EmptyDb == [schema |-> FALSE, ns |-> {}, dobjs |-> {}, dirs |-> {}]

\* db.Begin(): the transaction starts from the committed tables
Begin(d, cnt, failAt) ==
    [schema |-> d.schema, ns |-> d.ns, dobjs |-> d.dobjs, dirs |-> d.dirs,
     inodeCnt |-> cnt, inodeCnt0 |-> cnt, n |-> 0, failAt |-> failAt]

\* txn.Commit(): the working copy becomes the committed tables
Commit(st) == [schema |-> st.schema, ns |-> st.ns, dobjs |-> st.dobjs, dirs |-> st.dirs]

StoreError(st) == st.n + 1 = st.failAt
Tick(st)       == [st EXCEPT !.n = @ + 1]

\* CREATE TABLE / CREATE INDEX: the six DDL statements of metadataDbInitCore, in order.
\* The first CREATE TABLE fails on a store that already has the schema.
RECURSIVE CreateSchema(_, _)
CreateSchema(st, k) ==
    IF k = 0 THEN [st |-> [st EXCEPT !.schema = TRUE], err |-> "ok"]
    ELSE IF StoreError(st) \/ st.schema
         THEN [st |-> Tick(st), err |-> "store"]
         ELSE CreateSchema(Tick(st), k - 1)

\* INSERT INTO namespace: PRIMARY KEY (parent, name)
InsertNamespace(st, parent, name, objType, inode) ==
    IF StoreError(st) \/ ~st.schema
       \/ \E r \in st.ns : r.parent = parent /\ r.name = name
    THEN [st |-> Tick(st), err |-> "store"]
    ELSE [st |-> [Tick(st) EXCEPT !.ns = @ \cup
                    {[parent |-> parent, name |-> name, obj_type |-> objType, inode |-> inode]}],
          err |-> "ok"]

\* INSERT INTO data_objects: PRIMARY KEY (inode)
InsertDataObject(st, row) ==
    IF StoreError(st) \/ ~st.schema \/ \E r \in st.dobjs : r.inode = row.inode
    THEN [st |-> Tick(st), err |-> "store"]
    ELSE [st |-> [Tick(st) EXCEPT !.dobjs = @ \cup {row}], err |-> "ok"]

\* INSERT INTO directories: PRIMARY KEY (inode)
InsertDirectory(st, row) ==
    IF StoreError(st) \/ ~st.schema \/ \E r \in st.dirs : r.inode = row.inode
    THEN [st |-> Tick(st), err |-> "store"]
    ELSE [st |-> [Tick(st) EXCEPT !.dirs = @ \cup {row}], err |-> "ok"]

\* UPDATE data_objects SET nlink = .. WHERE id = ..
UpdateNlink(st, objId, nlink) ==
    IF StoreError(st) \/ ~st.schema
    THEN [st |-> Tick(st), err |-> "store"]
    ELSE [st |-> [Tick(st) EXCEPT !.dobjs =
                    {IF r.id = objId THEN [r EXCEPT !.nlink = nlink] ELSE r : r \in @}],
          err |-> "ok"]

\* the UPDATE without its WHERE clause: every row gets the size and the mtime
UpdateSizeMtimeAllRows(st, inode, size, mtime) ==
    IF StoreError(st) \/ ~st.schema
    THEN [st |-> Tick(st), err |-> "store"]
    ELSE [st |-> [Tick(st) EXCEPT !.dobjs = {[r EXCEPT !.size = size, !.mtime = mtime] : r \in @}],
          err |-> "ok"]

\* UPDATE data_objects SET size = .., mtime = .. WHERE inode = ..
UpdateSizeMtime(st, inode, size, mtime) ==
    IF StoreError(st) \/ ~st.schema
    THEN [st |-> Tick(st), err |-> "store"]
    ELSE [st |-> [Tick(st) EXCEPT !.dobjs =
                    {IF r.inode = inode THEN [r EXCEPT !.size = size, !.mtime = mtime]
                     ELSE r : r \in @}],
          err |-> "ok"]

\* Allocate an inode number: the new value of fsys.inodeCnt, which is also the inode returned
allocInodeNum(cnt) == cnt + 1

\* Update the directory populated flag to TRUE
setDirectoryToPopulated(st, dinode) ==
    IF StoreError(st) \/ ~st.schema
    THEN [st |-> Tick(st), err |-> "store"]
    ELSE [st |-> [Tick(st) EXCEPT !.dirs =
                    {IF r.inode = dinode THEN [r EXCEPT !.populated = 1] ELSE r : r \in @}],
          err |-> "ok"]

\* lookupDataObjectInodeById that finds no file, whatever the id
lookupDataObjectInodeByIdNotFound(st, fId) ==
    IF StoreError(st) \/ ~st.schema
    THEN [st |-> Tick(st), err |-> "store", inode |-> InodeInvalid, nlink |-> 0]
    ELSE [st |-> Tick(st), err |-> "ok", inode |-> InodeInvalid, nlink |-> 0]

\* search for a file by Id: its inode and link count, or InodeInvalid, 0
lookupDataObjectInodeById(st, fId) ==
    LET rows == {r \in st.dobjs : r.id = fId} IN
    IF StoreError(st) \/ ~st.schema
    THEN [st |-> Tick(st), err |-> "store", inode |-> InodeInvalid, nlink |-> 0]
    ELSE IF rows = {}
    THEN [st |-> Tick(st), err |-> "ok", inode |-> InodeInvalid, nlink |-> 0]
    ELSE IF Cardinality(rows) = 1
    THEN LET r == CHOOSE r \in rows : TRUE IN
         [st |-> Tick(st), err |-> "ok", inode |-> r.inode, nlink |-> r.nlink]
    ELSE [st |-> Tick(st), err |-> "panic", inode |-> InodeInvalid, nlink |-> 0]

\* `if err != nil { return 0, err }`: a failed step r ends the function, else K goes on
OnOk(r, K(_)) == IF r.err # "ok" THEN [st |-> r.st, err |-> r.err, inode |-> 0] ELSE K(r)

Ok(st, inode) == [st |-> st, err |-> "ok", inode |-> inode]

WithInode(r, inode) == [st |-> r.st, err |-> r.err, inode |-> inode]

\* createDataObject, the file is new: choose a new inode number, create an entry for the file
newDataObject(st, kind, projId, objId, size, ctime, mtime, inlineData) ==
    WithInode(InsertDataObject([st EXCEPT !.inodeCnt = allocInodeNum(@)],
                [kind |-> kind, id |-> objId, proj_id |-> projId,
                 inode |-> allocInodeNum(st.inodeCnt),
                 size |-> size, ctime |-> ctime, mtime |-> mtime, nlink |-> 1,
                 inline_data |-> inlineData]),
              allocInodeNum(st.inodeCnt))

\* linkDataObject writing the link count back as it was read
linkDataObjectSameCount(lk, objId) ==
    WithInode(UpdateNlink(lk.st, objId, lk.nlink), lk.inode)

\* createDataObject, the file already exists: increase the link count
linkDataObject(lk, objId) ==
    WithInode(UpdateNlink(lk.st, objId, lk.nlink + 1), lk.inode)

\* Create an entry representing one remote file
createDataObject(st, kind, projId, objId, size, ctime, mtime, parentDir, fname, inlineData) ==
    OnOk(lookupDataObjectInodeById(st, objId), LAMBDA lk :
    OnOk(IF lk.inode = InodeInvalid
         THEN newDataObject(lk.st, kind, projId, objId, size, ctime, mtime, inlineData)
         ELSE linkDataObject(lk, objId), LAMBDA w :
    OnOk(WithInode(InsertNamespace(w.st, parentDir, fname, nsDataObjType, w.inode), w.inode),
         LAMBDA ins : Ok(ins.st, ins.inode))))

\* createEmptyDir that leaves out the row of the directories table
createEmptyDirNoRow(st, projId, projFolder, ctime, mtime, dirPath, populated) ==
    IF dirPath = EmptyStr \/ dirPath[1] # "/"
    THEN [st |-> st, err |-> "panic", inode |-> 0]
    ELSE
    OnOk(InsertNamespace([st EXCEPT !.inodeCnt = allocInodeNum(@)],
                         splitPath(dirPath).parent, splitPath(dirPath).base, nsDirType,
                         allocInodeNum(st.inodeCnt)), LAMBDA ins :
         Ok(ins.st, ins.st.inodeCnt))

\* Create an empty directory, and return the inode
createEmptyDir(st, projId, projFolder, ctime, mtime, dirPath, populated) ==
    IF dirPath = EmptyStr \/ dirPath[1] # "/"
    THEN [st |-> st, err |-> "panic", inode |-> 0]
    ELSE
    OnOk(InsertNamespace([st EXCEPT !.inodeCnt = allocInodeNum(@)],
                         splitPath(dirPath).parent, splitPath(dirPath).base, nsDirType,
                         allocInodeNum(st.inodeCnt)), LAMBDA ins :
    OnOk(InsertDirectory(ins.st,
               [inode |-> ins.st.inodeCnt, proj_id |-> projId, proj_folder |-> projFolder,
                populated |-> boolToInt(populated), ctime |-> ctime, mtime |-> mtime]),
         LAMBDA d : Ok(d.st, d.st.inodeCnt)))

-----------------------------------------------------------------------------
(* The remote platform and the manifests (inputs of the model) *)

\* time.Now().Unix()
nowSeconds == 5

DxObj(class, serial, projId, name, size, ctime, mtime, symlink) ==
    [Id |-> <<class, serial>>, ProjId |-> projId, Name |-> name, Size |-> size,
     CtimeSeconds |-> ctime, MtimeSeconds |-> mtime, SymlinkPath |-> symlink]

NoFolder == [exists |-> FALSE, dataObjects |-> << >>, subdirs |-> << >>]

\* What the platform holds: project pA has folder / (file x, subfolder d) and folder /d
\* (two objects both named y); project pB has folder / with a clone of pA's file under
\* the name d next to a subfolder d.
RemoteFolder(projId, folder) ==
    IF projId = "pA" /\ folder = <<"/">> THEN
        [exists |-> TRUE,
         dataObjects |-> << DxObj("file", "1", "pA", <<"x">>, 3, 2, 6, EmptyStr) >>,
         subdirs |-> << <<"d">> >>]
    ELSE IF projId = "pA" /\ folder = <<"/", "d">> THEN
        [exists |-> TRUE,
         dataObjects |-> << DxObj("file", "2", "pA", <<"y">>, 1, 3, 4, <<"l">>),
                            DxObj("applet", "3", "pA", <<"y">>, 2, 1, 7, EmptyStr) >>,
         subdirs |-> << >>]
    ELSE IF projId = "pB" /\ folder = <<"/">> THEN
        [exists |-> TRUE,
         dataObjects |-> << DxObj("file", "1", "pB", <<"d">>, 3, 2, 6, EmptyStr) >>,
         subdirs |-> << <<"d">> >>]
    ELSE NoFolder

\* the access level the user has to a project (the Level of its description)
ProjectLevel(projId) == IF projId = "pB" THEN "VIEW" ELSE "CONTRIBUTE"

MDir(projId, folder, dirname, ctime, mtime) ==
    [ProjId |-> projId, Folder |-> folder, Dirname |-> dirname,
     CtimeSeconds |-> ctime, MtimeSeconds |-> mtime]

MFile(projId, class, serial, parent, fname, size, ctime, mtime) ==
    [ProjId |-> projId, FileId |-> <<class, serial>>, Parent |-> parent, Fname |-> fname,
     Size |-> size, CtimeSeconds |-> ctime, MtimeSeconds |-> mtime]

Manifests == <<
    [Directories |-> << MDir("pA", <<"/">>, <<"/", "A">>, 4, 4) >>,
     Files       |-> << >>],
    [Directories |-> << MDir("pA", <<"/">>, <<"/", "A">>, 4, 4),
                        MDir("pB", <<"/">>, <<"/", "B">>, 4, 4) >>,
     Files       |-> << MFile("pA", "file", "1", <<"/", "B">>, <<"x">>, 3, 2, 6) >>],
    [Directories |-> << MDir("pA", <<"/">>, <<"/", "s", "/", "A">>, 4, 4) >>,
     Files       |-> << MFile("pA", "file", "1", <<"/", "s", "/", "A">>, <<"x">>, 3, 2, 6) >>]
>>

\* proper ancestors of a path, the root excluded
RECURSIVE Ancestors(_)
Ancestors(path) ==
    LET p == FilepathDir(path) IN
    IF path = RootPath \/ p = RootPath \/ p = <<".">> THEN {} ELSE {p} \cup Ancestors(p)

RECURSIVE ShortestFirst(_)
ShortestFirst(S) ==
    IF S = {} THEN << >>
    ELSE LET x == CHOOSE x \in S : \A y \in S : Len(x) <= Len(y)
         IN <<x>> \o ShortestFirst(S \ {x})

\* manifest.DirSkeleton(): the scaffolding directories implied by the dirnames, parents first
DirSkeleton(m) ==
    ShortestFirst(UNION {Ancestors(m.Directories[i].Dirname) : i \in DOMAIN m.Directories})

-----------------------------------------------------------------------------
(* Population of a directory *)

kindOfFile(o) ==
    LET class == o.Id[1]
        k0 == CASE class = "file"     -> FK_Regular
                [] class = "applet"   -> FK_Applet
                [] class = "workflow" -> FK_Workflow
                [] class = "record"   -> FK_Record
                [] class = "database" -> FK_Database
                [] OTHER              -> FK_Other
    IN IF k0 = FK_Regular /\ Len(o.SymlinkPath) > 0 THEN FK_Symlink ELSE k0

inlineDataOfFile(kind, o) ==
    LET k == IF kind = FK_Regular /\ Len(o.SymlinkPath) > 0 THEN FK_Symlink ELSE kind
    IN IF k = FK_Symlink THEN o.SymlinkPath ELSE EmptyStr

\* the loop over dxObjs in populateDir, from index i on
RECURSIVE populateObjs(_, _, _, _)
populateObjs(st, dirPath, dxObjs, i) ==
    IF i > Len(dxObjs) THEN Ok(st, 0)
    ELSE LET o == dxObjs[i] IN
         OnOk(createDataObject(st, kindOfFile(o), o.ProjId, o.Id, o.Size, o.CtimeSeconds,
                               o.MtimeSeconds, dirPath, o.Name,
                               inlineDataOfFile(kindOfFile(o), o)),
              LAMBDA r : populateObjs(r.st, dirPath, dxObjs, i + 1))

\* the loop over subdirs in populateDir, from index i on
RECURSIVE populateSubdirs(_, _, _, _, _, _, _, _)
populateSubdirs(st, projId, projFolder, ctime, mtime, dirPath, subdirs, i) ==
    IF i > Len(subdirs) THEN Ok(st, 0)
    ELSE OnOk(createEmptyDir(st, projId, Clean(projFolder \o <<"/">> \o subdirs[i]),
                             ctime, mtime, Clean(dirPath \o <<"/">> \o subdirs[i]), FALSE),
              LAMBDA r : populateSubdirs(r.st, projId, projFolder, ctime, mtime, dirPath,
                                         subdirs, i + 1))

\* Create a directory with: an i-node, files, and empty unpopulated subdirectories.
\* The result of setDirectoryToPopulated is dropped by the code.
populateDir(st, dinode, projId, projFolder, ctime, mtime, dirPath, dxObjs, subdirs) ==
    OnOk(populateObjs(st, dirPath, dxObjs, 1), LAMBDA a :
    OnOk(populateSubdirs(a.st, projId, projFolder, ctime, mtime, dirPath, subdirs, 1),
         LAMBDA b : Ok(setDirectoryToPopulated(b.st, dinode).st, 0)))

\* PosixFixDir: data objects with a name of their own pass through; the objects sharing a
\* name go to a faux subdirectory of that name, each renamed with the serial of its id.
PosixFixDir(dxDir) ==
    LET objs     == dxDir.dataObjects
        Count(n) == Cardinality({i \in DOMAIN objs : objs[i].Name = n})
        dup      == {objs[i].Name : i \in {j \in DOMAIN objs : Count(objs[j].Name) > 1}}
        Unique(o)  == o.Name \notin dup
        Renamed(o) == [o EXCEPT !.Name = @ \o <<o.Id[2]>>]
        Members(n) == LET ms == SelectSeq(objs, LAMBDA o : o.Name = n)
                      IN [i \in DOMAIN ms |-> Renamed(ms[i])]
    IN [dataObjects |-> SelectSeq(objs, Unique),
        subdirs     |-> dxDir.subdirs,
        fauxSubdirs |-> [n \in dup |-> Members(n)]]

\* all the orders in which a Go map with these keys can be iterated
Orders(S) == {f \in [1..Cardinality(S) -> S] : \A i, j \in DOMAIN f : i # j => f[i] # f[j]}

\* Approximate the ctime/mtime using the file timestamps
RECURSIVE ctimeApprox(_, _, _)
ctimeApprox(ctime, objs, i) ==
    IF i > Len(objs) THEN ctime
    ELSE ctimeApprox(MinInt64(ctime, objs[i].CtimeSeconds), objs, i + 1)

RECURSIVE mtimeApprox(_, _, _)
mtimeApprox(mtime, objs, i) ==
    IF i > Len(objs) THEN mtime
    ELSE mtimeApprox(MaxInt64(mtime, objs[i].MtimeSeconds), objs, i + 1)

\* the loop over posixDir.fauxSubdirs that names each faux subdirectory after its place
\* in the iteration
RECURSIVE populateFauxNamedByPlace(_, _, _, _, _, _, _, _)
populateFauxNamedByPlace(st, projId, ctime, mtime, dirFullName, faux, order, i) ==
    IF i > Len(order) THEN Ok(st, 0)
    ELSE
    OnOk(createEmptyDir(st, projId, EmptyStr, ctime, mtime,
                        Clean(dirFullName \o <<"/">> \o <<ToString(i)>>), TRUE), LAMBDA c :
    OnOk(populateDir(c.st, c.inode, projId, EmptyStr, ctime, mtime,
                     Clean(dirFullName \o <<"/">> \o <<ToString(i)>>), faux[order[i]], << >>),
         LAMBDA q : populateFauxNamedByPlace(q.st, projId, ctime, mtime, dirFullName, faux,
                                             order, i + 1)))

\* the loop over posixDir.fauxSubdirs, in the iteration order `order`, from index i on
RECURSIVE populateFaux(_, _, _, _, _, _, _, _)
populateFaux(st, projId, ctime, mtime, dirFullName, faux, order, i) ==
    IF i > Len(order) THEN Ok(st, 0)
    ELSE
    OnOk(createEmptyDir(st, projId, EmptyStr, ctime, mtime,
                        Clean(dirFullName \o <<"/">> \o order[i]), TRUE), LAMBDA c :
    OnOk(populateDir(c.st, c.inode, projId, EmptyStr, ctime, mtime,
                     Clean(dirFullName \o <<"/">> \o order[i]), faux[order[i]], << >>),
         LAMBDA q : populateFaux(q.st, projId, ctime, mtime, dirFullName, faux, order, i + 1)))


\* the end of a transaction that takes the inode counter back on a rollback
EndTxnRollsBackInodeCnt(d, r, commitOk, commitErr) ==
    IF r.err # "ok"
    THEN [db |-> d, inodeCnt |-> r.st.inodeCnt0, alloc |-> r.st.inodeCnt, err |-> r.err,
          n |-> r.st.n, committed |-> FALSE]
    ELSE IF ~commitOk
    THEN [db |-> d, inodeCnt |-> r.st.inodeCnt, alloc |-> r.st.inodeCnt, err |-> commitErr,
          n |-> r.st.n, committed |-> FALSE]
    ELSE [db |-> Commit(r.st), inodeCnt |-> r.st.inodeCnt, alloc |-> r.st.inodeCnt,
          err |-> "ok", n |-> r.st.n, committed |-> TRUE]
\* the end of a transaction that commits what a failed call has written so far
EndTxnCommitsPartial(d, r, commitOk, commitErr) ==
    IF r.err = "panic"
    THEN [db |-> d, inodeCnt |-> r.st.inodeCnt, alloc |-> r.st.inodeCnt, err |-> r.err, n |-> r.st.n,
          committed |-> FALSE]
    ELSE IF r.err # "ok"
    THEN [db |-> Commit(r.st), inodeCnt |-> r.st.inodeCnt, alloc |-> r.st.inodeCnt,
          err |-> r.err, n |-> r.st.n, committed |-> TRUE]
    ELSE IF ~commitOk
    THEN [db |-> d, inodeCnt |-> r.st.inodeCnt, alloc |-> r.st.inodeCnt, err |-> commitErr,
          n |-> r.st.n, committed |-> FALSE]
    ELSE [db |-> Commit(r.st), inodeCnt |-> r.st.inodeCnt, alloc |-> r.st.inodeCnt,
          err |-> "ok", n |-> r.st.n, committed |-> TRUE]

\* The end of a transaction on the committed store d.  A failed step: txn.Rollback(), the
\* store stays as it was (the inode counter does not).  Else txn.Commit(); when the commit
\* itself fails nothing is written, and the caller returns commitErr.
EndTxn(d, r, commitOk, commitErr) ==
    IF r.err # "ok"
    THEN [db |-> d, inodeCnt |-> r.st.inodeCnt, alloc |-> r.st.inodeCnt, err |-> r.err, n |-> r.st.n,
          committed |-> FALSE]
    ELSE IF ~commitOk
    THEN [db |-> d, inodeCnt |-> r.st.inodeCnt, alloc |-> r.st.inodeCnt, err |-> commitErr,
          n |-> r.st.n, committed |-> FALSE]
    ELSE [db |-> Commit(r.st), inodeCnt |-> r.st.inodeCnt, alloc |-> r.st.inodeCnt,
          err |-> "ok", n |-> r.st.n, committed |-> TRUE]

\* db.Begin() fails
BeginFails(d, cnt) ==
    [db |-> d, inodeCnt |-> cnt, alloc |-> cnt, err |-> "store", n |-> 0, committed |-> FALSE]

\* directoryReadFromDNAx after DxDescribeFolder has answered with dxDir: encode it in the
\* database.  failAt = -1: db.Begin() fails.  The result of txn.Commit() is dropped by
\* the code.  Result: the committed store, the inode counter, the error returned.
directoryReadFromDNAx(d, cnt, dInfo, dirFullName, dxDir, order, failAt, commitOk) ==
    LET ctimeA   == ctimeApprox(dInfo.ctime, dxDir.dataObjects, 1)
        mtimeA   == mtimeApprox(dInfo.mtime, dxDir.dataObjects, 1)
        posixDir == PosixFixDir(dxDir)
    IN
    IF failAt = -1 THEN BeginFails(d, cnt)
    ELSE EndTxn(d,
           OnOk(populateDir(Begin(d, cnt, failAt), dInfo.inode, dInfo.projId, dInfo.projFolder,
                            ctimeA, mtimeA, dirFullName, posixDir.dataObjects,
                            posixDir.subdirs), LAMBDA top :
                populateFaux(top.st, dInfo.projId, ctimeA, mtimeA, dirFullName,
                             posixDir.fauxSubdirs, order, 1)),
           commitOk, "ok")

-----------------------------------------------------------------------------
(* Bootstrap *)

metadataDbInitCore(txn) ==
    OnOk(CreateSchema(txn, 6), LAMBDA c :
    OnOk(InsertDirectory(c.st,
               [inode |-> InodeRoot, proj_id |-> "", proj_folder |-> EmptyStr,
                populated |-> boolToInt(FALSE), ctime |-> nowSeconds, mtime |-> nowSeconds]),
         LAMBDA d :
    OnOk(InsertNamespace(d.st, EmptyStr, RootPath, nsDirType, InodeRoot),
         LAMBDA ins : Ok(ins.st, 0))))

\* construct an initial empty database
MetadataDbInit(d, cnt, failAt, commitOk) ==
    IF failAt = -1 THEN BeginFails(d, cnt)
    ELSE EndTxn(d, metadataDbInitCore(Begin(d, cnt, failAt)), commitOk, "store")

\* the loop over dirSkel creating the scaffolding directories as not populated
RECURSIVE rootSkeletonUnpopulated(_, _, _)
rootSkeletonUnpopulated(st, dirSkel, i) ==
    IF i > Len(dirSkel) THEN Ok(st, 0)
    ELSE OnOk(createEmptyDir(st, "", EmptyStr, nowSeconds, nowSeconds, dirSkel[i], FALSE),
              LAMBDA r : rootSkeletonUnpopulated(r.st, dirSkel, i + 1))

\* the loop over dirSkel in MetadataDbPopulateRoot
RECURSIVE rootSkeleton(_, _, _)
rootSkeleton(st, dirSkel, i) ==
    IF i > Len(dirSkel) THEN Ok(st, 0)
    ELSE OnOk(createEmptyDir(st, "", EmptyStr, nowSeconds, nowSeconds, dirSkel[i], TRUE),
              LAMBDA r : rootSkeleton(r.st, dirSkel, i + 1))

\* the loop over manifest.Files in MetadataDbPopulateRoot
RECURSIVE rootFiles(_, _, _)
rootFiles(st, files, i) ==
    IF i > Len(files) THEN Ok(st, 0)
    ELSE LET fl == files[i] IN
         OnOk(createDataObject(st, FK_Regular, fl.ProjId, fl.FileId, fl.Size,
                               fl.CtimeSeconds, fl.MtimeSeconds, fl.Parent, fl.Fname, EmptyStr),
              LAMBDA r : rootFiles(r.st, files, i + 1))

\* the loop over manifest.Directories in MetadataDbPopulateRoot
RECURSIVE rootDirectories(_, _, _)
rootDirectories(st, dirs, i) ==
    IF i > Len(dirs) THEN Ok(st, 0)
    ELSE LET dd == dirs[i] IN
         OnOk(createEmptyDir(st, dd.ProjId, dd.Folder, dd.CtimeSeconds, dd.MtimeSeconds,
                             dd.Dirname, FALSE),
              LAMBDA r : rootDirectories(r.st, dirs, i + 1))

\* MetadataDbPopulateRoot that does not set the root to populated
MetadataDbPopulateRootNoFlag(d, cnt, m, describeOk, failAt, commitOk) ==
    IF ~describeOk
    THEN [db |-> d, inodeCnt |-> cnt, alloc |-> cnt, err |-> "remote", n |-> 0,
          committed |-> FALSE]
    ELSE IF failAt = -1 THEN BeginFails(d, cnt)
    ELSE EndTxn(d,
           OnOk(rootSkeleton(Begin(d, cnt, failAt), DirSkeleton(m), 1), LAMBDA a :
           OnOk(rootFiles(a.st, m.Files, 1), LAMBDA b :
           OnOk(rootDirectories(b.st, m.Directories, 1), LAMBDA c : Ok(c.st, 0)))),
           commitOk, "store")

\* Build a toplevel directory for each project.  describeOk: every DxDescribeProject answers.
MetadataDbPopulateRoot(d, cnt, m, describeOk, failAt, commitOk) ==
    IF ~describeOk
    THEN [db |-> d, inodeCnt |-> cnt, alloc |-> cnt, err |-> "remote", n |-> 0,
          committed |-> FALSE]
    ELSE IF failAt = -1 THEN BeginFails(d, cnt)
    ELSE EndTxn(d,
           OnOk(rootSkeleton(Begin(d, cnt, failAt), DirSkeleton(m), 1), LAMBDA a :
           OnOk(rootFiles(a.st, m.Files, 1), LAMBDA b :
           OnOk(rootDirectories(b.st, m.Directories, 1), LAMBDA c :
           OnOk(setDirectoryToPopulated(c.st, InodeRoot), LAMBDA p : Ok(p.st, 0))))),
           commitOk, "store")

-----------------------------------------------------------------------------
(* Queries on the committed store *)

NoDirInfo == [inode |-> InodeInvalid, projId |-> "", projFolder |-> EmptyStr, ctime |-> 0, mtime |-> 0]

\* directoryLookup that reports every directory it finds as not populated
directoryLookupNeverPopulated(d, dirPath) ==
    LET sp   == splitPath(dirPath)
        rows == {r \in d.ns : r.parent = sp.parent /\ r.name = sp.base /\ r.obj_type = nsDirType}
    IN
    IF rows = {} THEN [code |-> dirDoesNotExist, dInfo |-> NoDirInfo]
    ELSE
    LET inode == (CHOOSE r \in rows : TRUE).inode
        dr    == CHOOSE r \in d.dirs : r.inode = inode
    IN [code |-> dirExistsButNotPopulated,
        dInfo |-> [inode |-> inode, projId |-> dr.proj_id, projFolder |-> dr.proj_folder,
                   ctime |-> dr.ctime, mtime |-> dr.mtime]]

\* Look for a directory: whether it exists and is populated, and its DirInfo.  code 0: panic
directoryLookup(d, dirPath) ==
    LET sp   == splitPath(dirPath)
        rows == {r \in d.ns : r.parent = sp.parent /\ r.name = sp.base /\ r.obj_type = nsDirType}
    IN
    IF rows = {} THEN [code |-> dirDoesNotExist, dInfo |-> NoDirInfo]
    ELSE IF Cardinality(rows) > 1 THEN [code |-> 0, dInfo |-> NoDirInfo]
    ELSE
    LET inode == (CHOOSE r \in rows : TRUE).inode
        drows == {r \in d.dirs : r.inode = inode}
    IN
    IF Cardinality(drows) # 1 THEN [code |-> 0, dInfo |-> NoDirInfo]
    ELSE
    LET dr == CHOOSE r \in drows : TRUE
        dInfo == [inode |-> inode, projId |-> dr.proj_id, projFolder |-> dr.proj_folder,
                  ctime |-> dr.ctime, mtime |-> dr.mtime]
    IN
    IF dr.populated = 0 THEN [code |-> dirExistsButNotPopulated, dInfo |-> dInfo]
    ELSE IF dr.populated = 1 THEN [code |-> dirExistAndPopulated, dInfo |-> dInfo]
    ELSE [code |-> 0, dInfo |-> NoDirInfo]

FileOf(r, name) ==
    [Kind |-> r.kind, Id |-> r.id, ProjId |-> r.proj_id, Name |-> name, Size |-> r.size,
     Inode |-> r.inode, Ctime |-> r.ctime, Mtime |-> r.mtime, Nlink |-> r.nlink,
     InlineData |-> r.inline_data]

DirOf(r, parent, name) ==
    [Parent |-> parent, Dname |-> name, Inode |-> r.inode, Ctime |-> r.ctime, Mtime |-> r.mtime]

\* The directory is in the database, read it in its entirety (the two JOIN queries)
directoryReadAllEntries(d, dirFullName) ==
    [files   |-> {FileOf(o, r.name) :
                    <<o, r>> \in {x \in d.dobjs \X d.ns :
                        x[1].inode = x[2].inode /\ x[2].parent = dirFullName
                        /\ x[2].obj_type = nsDataObjType}},
     subdirs |-> {DirOf(o, dirFullName, r.name) :
                    <<o, r>> \in {x \in d.dirs \X d.ns :
                        x[1].inode = x[2].inode /\ x[2].parent = dirFullName
                        /\ x[2].obj_type = nsDirType}}]

NoNode == [type |-> 0]

\* search for a directory with a particular inode
lookupDir(d, dirFullName, dname, dinode) ==
    LET rows == {r \in d.dirs : r.inode = dinode} IN
    IF Cardinality(rows) # 1 THEN [err |-> "panic", node |-> NoNode]
    ELSE [err |-> "ok",
          node |-> [type |-> nsDirType, dir |-> DirOf(CHOOSE r \in rows : TRUE, dirFullName, dname)]]

\* search for a file with a particular inode
lookupDataObjectShouldExist(d, dirFullName, oname, inode) ==
    LET rows == {r \in d.dobjs : r.inode = inode} IN
    IF Cardinality(rows) # 1 THEN [err |-> "panic", node |-> NoNode]
    ELSE [err |-> "ok",
          node |-> [type |-> nsDataObjType, file |-> FileOf(CHOOSE r \in rows : TRUE, oname)]]

\* Search for a file/subdir in a directory
fastLookup(d, dirFullName, dirOrFileName) ==
    LET rows == {r \in d.ns : r.parent = dirFullName /\ r.name = dirOrFileName} IN
    IF rows = {} THEN [err |-> "ENOENT", node |-> NoNode]
    ELSE IF Cardinality(rows) > 1 THEN [err |-> "panic", node |-> NoNode]
    ELSE
    LET r == CHOOSE r \in rows : TRUE IN
    IF r.obj_type = nsDirType THEN lookupDir(d, dirFullName, dirOrFileName, r.inode)
    ELSE IF r.obj_type = nsDataObjType
    THEN lookupDataObjectShouldExist(d, dirFullName, dirOrFileName, r.inode)
    ELSE [err |-> "panic", node |-> NoNode]

\* time.Time{}, the zero value of a time: it lies before every time of the index
ZeroTime == -1

\* fuseops.InodeAttributes{}, the value the named result a of GetAttrs starts with
ZeroAttrs ==
    [Size |-> 0, Nlink |-> 0, Mode |-> {}, Atime |-> ZeroTime, Mtime |-> ZeroTime,
     Ctime |-> ZeroTime, Crtime |-> ZeroTime, Uid |-> 0, Gid |-> 0]

\* Dir.GetAttrs for the Dir d that lookupDir has built (it leaves Mode, Uid and Gid at
\* their zero values): Mtime and Ctime are assigned from the result a itself
GetAttrs(d) ==
    LET a1 == [ZeroAttrs EXCEPT !.Size = 4096, !.Nlink = 1]
        a2 == [a1 EXCEPT !.Mtime = a1.Mtime]
        a3 == [a2 EXCEPT !.Ctime = a2.Ctime]
        a4 == [a3 EXCEPT !.Mode = {"ModeDir"} \cup ZeroAttrs.Mode]
        a5 == [a4 EXCEPT !.Crtime = a4.Ctime]
    IN [a5 EXCEPT !.Uid = ZeroAttrs.Uid, !.Gid = ZeroAttrs.Gid]

\* MetadataDbRoot: the node of the root directory, found by its inode
MetadataDbRoot(d) ==
    LET rows == {r \in d.ns : r.inode = InodeRoot} IN
    IF rows = {} THEN [err |-> "error", node |-> NoNode]
    ELSE IF Cardinality(rows) > 1 THEN [err |-> "error", node |-> NoNode]
    ELSE IF (CHOOSE r \in rows : TRUE).obj_type # nsDirType THEN [err |-> "panic", node |-> NoNode]
    ELSE lookupDir(d, RootPath, RootPath, InodeRoot)

-----------------------------------------------------------------------------
(* Kernel requests.  A thread serving a request holds fsys.mutex from entry to return.   *)
(* A request runs until it has to describe a folder on the platform (pc = "describe"),   *)
(* takes an http client (pc = "remote"), and goes on when the platform has answered.     *)
(* stage: S1, S2, S3 are the three parts of MetadataDbReadDirAll (directoryExists, the   *)
(* switch on its result, the local read); L1, L2, L3 those of MetadataDbLookupInDir.     *)

Threads == {1, 2}

NoCur == [dInfo |-> NoDirInfo, path |-> EmptyStr]
NoPop == [path |-> EmptyStr, err |-> "none", fault |-> "none"]
NoRet == [err |-> "none", files |-> {}, subdirs |-> {}, node |-> NoNode]

IdleThread ==
    [pc |-> "idle", op |-> "none", dir |-> EmptyStr, name |-> EmptyStr, stage |-> "none",
     cur |-> NoCur, pop |-> NoPop, ret |-> NoRet]

Done(c, ret)  == [c EXCEPT !.pc = "returned", !.stage = "none", !.cur = NoCur, !.ret = ret]
Panic(c)      == [c EXCEPT !.pc = "panic"]
ErrRet(e)     == [NoRet EXCEPT !.err = e]
Suspend(c, dInfo, path, next) ==
    [c EXCEPT !.pc = "describe", !.stage = next, !.cur = [dInfo |-> dInfo, path |-> path]]

\* directoryExists that goes on to look up dirPath when the parent does not exist
parentCheckedNoPanic(c, parentDir, pl, next) ==
    IF pl.code = 0 THEN Panic(c)
    ELSE IF pl.code = dirExistsButNotPopulated
    THEN IF parentDir = RootPath THEN Panic(c) ELSE Suspend(c, pl.dInfo, parentDir, next)
    ELSE [c EXCEPT !.stage = next]

\* directoryExists: make sure the parent directory has been populated (pl is the result of
\* directoryLookup on the parent); then the caller looks up dirPath itself
parentChecked(c, parentDir, pl, next) ==
    IF pl.code = 0 \/ pl.code = dirDoesNotExist THEN Panic(c)
    ELSE IF pl.code = dirExistsButNotPopulated
    THEN IF parentDir = RootPath THEN Panic(c) ELSE Suspend(c, pl.dInfo, parentDir, next)
    ELSE [c EXCEPT !.stage = next]

directoryExists(d, c, next) ==
    IF c.dir = RootPath THEN [c EXCEPT !.stage = next]
    ELSE parentChecked(c, FilepathDir(c.dir), directoryLookup(d, FilepathDir(c.dir)), next)

RECURSIVE MetadataDbReadDirAll(_, _)
RECURSIVE MetadataDbLookupInDir(_, _)

MetadataDbReadDirAll(d, c) ==
    IF c.stage = "S1"
    THEN LET K(e) == IF e.pc # "run" THEN e ELSE MetadataDbReadDirAll(d, e)
         IN K(directoryExists(d, c, "S2"))
    ELSE IF c.stage = "S2"
    THEN LET K(l) ==
               IF l.code = 0 THEN Panic(c)
               ELSE IF l.code = dirDoesNotExist THEN Done(c, ErrRet("ENOENT"))
               ELSE IF l.code = dirExistsButNotPopulated THEN Suspend(c, l.dInfo, c.dir, "S3")
               ELSE MetadataDbReadDirAll(d, [c EXCEPT !.stage = "S3"])
         IN K(directoryLookup(d, c.dir))
    ELSE LET K(e) ==
               IF c.op # "ReadDir" THEN MetadataDbLookupInDir(d, [c EXCEPT !.stage = "L3"])
               ELSE Done(c, [NoRet EXCEPT !.err = "ok", !.files = e.files,
                                          !.subdirs = e.subdirs])
         IN K(directoryReadAllEntries(d, c.dir))

MetadataDbLookupInDir(d, c) ==
    IF c.stage = "L1"
    THEN LET K(e) == IF e.pc # "run" THEN e ELSE MetadataDbLookupInDir(d, e)
         IN K(directoryExists(d, c, "L2"))
    ELSE IF c.stage = "L2"
    THEN LET K(l) ==
               IF l.code = 0 THEN Panic(c)
               ELSE IF l.code = dirDoesNotExist THEN Done(c, ErrRet("ENOENT"))
               ELSE IF l.code = dirExistsButNotPopulated
               THEN MetadataDbReadDirAll(d, [c EXCEPT !.stage = "S1"])
               ELSE MetadataDbLookupInDir(d, [c EXCEPT !.stage = "L3"])
         IN K(directoryLookup(d, c.dir))
    ELSE LET K(r) == IF r.err = "panic" THEN Panic(c)
                     ELSE Done(c, [NoRet EXCEPT !.err = r.err, !.node = r.node])
         IN K(fastLookup(d, c.dir, c.name))

\* fsys.baseDir2ProjectId, filled by MetadataDbPopulateRoot from manifest m
baseDir2ProjectId(m) ==
    {[baseDir |-> m.Directories[i].Dirname, projId |-> m.Directories[i].ProjId] :
        i \in DOMAIN m.Directories}

\* Figure out which project this folder belongs to: the results the loop over the map can
\* return (it returns at the first base directory, in map order, that is a prefix).
\* The empty set: panic.
projectIdAndFolder(m, dirname) ==
    {[projId |-> e.projId,
      folder |-> LET f == SubSeq(dirname, Len(e.baseDir) + 1, Len(dirname))
                 IN IF HasPrefix(f, <<"/">>) THEN f ELSE <<"/">> \o f] :
        e \in {x \in baseDir2ProjectId(m) : HasPrefix(dirname, x.baseDir)}}

\* CreateFile that does not look at whether the directory already contains the name
CreateFileNoExistCheck(m, c, e) ==
    IF e.pc # "returned" THEN e
    ELSE IF e.ret.err \notin {"ok", "ENOENT"} THEN e
    ELSE IF projectIdAndFolder(m, c.dir) = {} THEN Panic(c)
    ELSE [c EXCEPT !.pc = "filenew", !.stage = "C2", !.cur = NoCur]

\* CreateFile up to the call of DxFileNew, given the record e that its call of
\* MetadataDbLookupInDir has led to: EEXIST if the name is there
CreateFile(m, c, e) ==
    IF e.pc # "returned" THEN e
    ELSE IF e.ret.err = "ok" THEN Done(c, ErrRet("EEXIST"))
    ELSE IF e.ret.err # "ENOENT" THEN e
    ELSE IF projectIdAndFolder(m, c.dir) = {} THEN Panic(c)
    ELSE [c EXCEPT !.pc = "filenew", !.stage = "C2", !.cur = NoCur]

\* run the request of thread record c on the committed store d up to its next remote call
Run(d, m, c) ==
    LET K(e) == IF c.op = "Create" THEN CreateFile(m, c, e) ELSE e
    IN K(IF c.stage \in {"S1", "S2", "S3"} THEN MetadataDbReadDirAll(d, c)
         ELSE MetadataDbLookupInDir(d, c))

\* the request of thread record c goes on after directoryReadFromDNAx has returned r
Resume(m, c, r) ==
    IF r.err = "panic" THEN Panic(c)
    ELSE IF r.err # "ok" THEN Done(c, ErrRet(r.err))
    ELSE Run(r.db, m, c)

\* CreateFile after DxFileNew has answered with fileId: insert into the database
CreateFileTxn(d, cnt, projId, fileId, dir, fname, localPath, failAt, commitOk) ==
    IF failAt = -1 THEN BeginFails(d, cnt)
    ELSE EndTxn(d, createDataObject(Begin(d, cnt, failAt), FK_Regular, projId, fileId, 0,
                                    nowSeconds, nowSeconds, dir, fname, localPath),
                commitOk, "store")

\* MetadataDbUpdateFile that writes the size and leaves mtime as it was
MetadataDbUpdateFileSizeOnly(d, cnt, inode, size, modTimeSec, failAt, commitOk) ==
    IF failAt = -1 THEN BeginFails(d, cnt)
    ELSE EndTxn(d, UpdateSizeMtime(Begin(d, cnt, failAt), inode, size,
                                   (CHOOSE r \in d.dobjs : r.inode = inode).mtime),
                commitOk, "store")

\* MetadataDbUpdateFile that writes the mtime and leaves the size as it was
MetadataDbUpdateFileMtimeOnly(d, cnt, inode, size, modTimeSec, failAt, commitOk) ==
    IF failAt = -1 THEN BeginFails(d, cnt)
    ELSE EndTxn(d, UpdateSizeMtime(Begin(d, cnt, failAt), inode,
                                   (CHOOSE r \in d.dobjs : r.inode = inode).size, modTimeSec),
                commitOk, "store")

\* MetadataDbUpdateFile(f, fInfo): the size and the modification time of the local file
\* are written to the row of f.Inode
MetadataDbUpdateFile(d, cnt, inode, size, modTimeSec, failAt, commitOk) ==
    IF failAt = -1 THEN BeginFails(d, cnt)
    ELSE EndTxn(d, UpdateSizeMtime(Begin(d, cnt, failAt), inode, size, modTimeSec),
                commitOk, "store")

-----------------------------------------------------------------------------
(* The state machine *)

\* The requests the kernel sends.  Thread 1 may name any of the paths below; thread 2 is
\* the concurrent caller and works in /A and /A/d only.
PathA  == <<"/", "A">>
PathAd == <<"/", "A", "/", "d">>
PathB  == <<"/", "B">>
PathsA == <<"/", "s", "/", "A">>
PathAx == <<"/", "A", "/", "x">>
Paths  == <<"/", "s">>

ReadDirPaths(t) ==
    IF t = 1 THEN { RootPath, PathA, PathAd, PathB, PathsA, PathAx, <<"/", "q", "/", "r">> }
    ELSE { PathA }

LookupArgs(t) ==
    IF t = 1 THEN { <<RootPath, <<"A">>>>, <<PathA, <<"x">>>>, <<PathA, <<"q">>>>,
                    <<PathAd, <<"y">>>>, <<PathB, <<"x">>>>, <<PathsA, <<"x">>>>,
                    <<Paths, <<"A">>>> }
    ELSE { <<PathA, <<"x">>>> }

CreateArgs(t) ==
    IF t = 1 THEN { <<PathA, <<"n">>>>, <<PathA, <<"x">>>>, <<RootPath, <<"n">>>>,
                    <<RootPath, <<"A">>>>, <<PathB, <<"n">>>> }
    ELSE { }

\* the local staging path CreateFile is given
LocalPath == <<"t">>

\* the id the platform gives the k-th file it creates
FileId(k) == <<"file", IF k = 1 THEN "7" ELSE IF k = 2 THEN "8" ELSE "9">>

Bump(h, path) ==
    [p \in DOMAIN h \cup {path} |->
        IF p = path THEN (IF p \in DOMAIN h THEN (IF h[p] >= HistCap THEN HistCap ELSE h[p] + 1)
                          ELSE 1)
        ELSE h[p]]

Count(h, path) == IF path \in DOMAIN h THEN h[path] ELSE 0

\* the manifests a mount is given: a mount with --readOnly is explored with the first
MountManifests(o) == IF o.ReadOnly THEN {1} ELSE DOMAIN Manifests

\* no function is called on its own, no launcher runs: the state is that of one mount
NoCall == [fn |-> "none"]
NoCli  == [pc |-> "none"]

\* The upload state of the file CreateFile has made, and what the platform holds of it.
\* data: the staging file; sliced: how much of it has been cut into parts; parts: the
\* ordered list of parts; queue, inflight: parts waiting for, and held by, a worker.
NoUpload ==
    [state |-> "none", id |-> EmptyStr, inode |-> InodeInvalid, data |-> EmptyStr,
     sliced |-> 0, writes |-> 0, parts |-> << >>, queue |-> << >>, inflight |-> {},
     remote |-> [state |-> "none", parts |-> << >>, arrived |-> << >>]]

\* Create initializes the upload state of the new file: Open, nothing written
OpenUpload(fileId, inode) ==
    [NoUpload EXCEPT !.state = "Open", !.id = fileId, !.inode = inode,
                     !.remote = [state |-> "open", parts |-> << >>, arrived |-> << >>]]

\* the value NewDxfuse gives fsys.inodeCnt: inode 1 is reserved for the root
NewInodeCnt == InodeRoot

\* the state NewDxfuse starts from
InitMount ==
    /\ db = EmptyDb
    /\ inodeCnt = NewInodeCnt
    /\ boot = "new"
    /\ manifest = 0
    /\ mutex = 0
    /\ pool = HttpClientPoolSize
    /\ th = [t \in Threads |-> IdleThread]
    /\ crashed = FALSE
    /\ faults = 0
    /\ filesNew = 0
    /\ hist = [desc |-> << >>, commits |-> << >>, failed |-> {},
               maxAlloc |-> NewInodeCnt, updates |-> 0, updated |-> << >>]
    /\ options \in {[ReadOnly |-> ro] : ro \in BOOLEAN}

Init ==
    /\ InitMount
    /\ fugs = NoUpload
    /\ call = NoCall
    /\ cli = NoCli

\* the store error (if any) met by one transaction: failAt, and whether Commit succeeds
Fault(failAt, commitOk) == failAt # 0 \/ ~commitOk
FaultAllowed(failAt, commitOk) == Fault(failAt, commitOk) => faults < MaxFaults
FaultKind(failAt, commitOk) ==
    IF failAt = -1 THEN "begin" ELSE IF failAt > 0 THEN "stmt"
    ELSE IF ~commitOk THEN "commit" ELSE "none"
\* NewDxfuse, first half: MetadataDbInit
DbInit ==
    /\ boot = "new"
    /\ \E failAt \in -1..MaxStmts, commitOk \in BOOLEAN :
        LET Apply(r) ==
              /\ failAt > 0 => r.n >= failAt
              /\ db' = r.db
              /\ inodeCnt' = r.inodeCnt
              /\ boot' = IF r.err = "ok" THEN "inited" ELSE "failed"
              /\ hist' = [hist EXCEPT !.maxAlloc = MaxInt64(@, r.alloc)]
        IN
        /\ FaultAllowed(failAt, commitOk)
        /\ ~commitOk => failAt = 0
        /\ faults' = IF Fault(failAt, commitOk) THEN faults + 1 ELSE faults
        /\ Apply(MetadataDbInit(db, inodeCnt, failAt, commitOk))
    /\ UNCHANGED <<call, cli, fugs, options, manifest, mutex, pool, th, crashed, filesNew>>

\* NewDxfuse, second half: MetadataDbPopulateRoot(manifest)
PopulateRoot ==
    /\ boot = "inited"
    /\ \E m \in MountManifests(options), describeOk \in BOOLEAN,
          failAt \in -1..MaxStmts, commitOk \in BOOLEAN :
        LET Apply(r) ==
              /\ failAt > 0 => r.n >= failAt
              /\ db' = r.db
              /\ inodeCnt' = r.inodeCnt
              /\ boot' = IF r.err = "ok" THEN "mounted" ELSE "failed"
              /\ hist' = [hist EXCEPT !.maxAlloc = MaxInt64(@, r.alloc)]
        IN
        /\ (Fault(failAt, commitOk) \/ ~describeOk) => faults < MaxFaults
        /\ ~describeOk => (failAt = 0 /\ commitOk)
        /\ ~commitOk => failAt = 0
        /\ manifest' = m
        /\ faults' = IF Fault(failAt, commitOk) \/ ~describeOk THEN faults + 1 ELSE faults
        /\ Apply(MetadataDbPopulateRoot(db, inodeCnt, Manifests[m], describeOk, failAt, commitOk))
    \* httpClient := <- fsys.httpClientPool, given back by the deferred function on return
    /\ pool > 0
    /\ pool' = (pool - 1) + 1
    /\ UNCHANGED <<call, cli, fugs, options, mutex, th, crashed, filesNew>>

CanStart(t) ==
    /\ ~crashed
    /\ boot = "mounted"
    /\ th[t].pc \in {"idle", "returned"}
    /\ inodeCnt < MaxInode

\* the kernel asks thread t to read directory path
StartReadDir(t, path) ==
    /\ CanStart(t)
    /\ th' = [th EXCEPT ![t] = [IdleThread EXCEPT !.pc = "lock", !.op = "ReadDir",
                                                  !.dir = path, !.stage = "S1"]]
    /\ UNCHANGED <<call, cli, fugs, options, db, inodeCnt, boot, manifest, mutex, pool, crashed, faults, filesNew, hist>>

\* the kernel asks thread t to look up name in directory parent
StartLookup(t, parent, name) ==
    /\ CanStart(t)
    /\ th' = [th EXCEPT ![t] = [IdleThread EXCEPT !.pc = "lock", !.op = "Lookup",
                                                  !.dir = parent, !.name = name, !.stage = "L1"]]
    /\ UNCHANGED <<call, cli, fugs, options, db, inodeCnt, boot, manifest, mutex, pool, crashed, faults, filesNew, hist>>

\* the kernel asks thread t to create file fname in directory dir
StartCreate(t, dir, fname) ==
    /\ CanStart(t)
    /\ filesNew < MaxCreates
    /\ th' = [th EXCEPT ![t] = [IdleThread EXCEPT !.pc = "lock", !.op = "Create",
                                                  !.dir = dir, !.name = fname, !.stage = "L1"]]
    /\ UNCHANGED <<call, cli, fugs, options, db, inodeCnt, boot, manifest, mutex, pool, crashed, faults, filesNew, hist>>

\* thread t goes on with record c: it keeps the mutex unless the request has returned
Proceed(t, c) ==
    /\ th' = [th EXCEPT ![t] = c]
    /\ mutex' = IF c.pc = "returned" THEN 0 ELSE t
    /\ crashed' = (c.pc = "panic")

\* a Create that lets every request through to CreateFile
CreateDeniedNever(o, d, dir) == FALSE

\* Create is denied on a mount with --readOnly and in a directory of a project to which
\* the user has VIEW access only
CreateDenied(o, d, dir) ==
    \/ o.ReadOnly
    \/ \E r \in d.dirs :
          /\ ProjectLevel(r.proj_id) = "VIEW"
          /\ \E n \in d.ns : /\ n.inode = r.inode
                              /\ n.obj_type = nsDirType
                              /\ n.parent = splitPath(dir).parent
                              /\ n.name = splitPath(dir).base

\* a Dispatch that runs the request without waiting for the mutex
DispatchWithoutLock(t) ==
    /\ ~crashed
    /\ th[t].pc = "lock"
    /\ Proceed(t, IF th[t].op = "Create" /\ CreateDenied(options, db, th[t].dir)
                  THEN Done(th[t], ErrRet("EPERM"))
                  ELSE Run(db, Manifests[manifest], [th[t] EXCEPT !.pc = "run"]))
    /\ UNCHANGED <<call, cli, fugs, options, db, inodeCnt, boot, manifest, pool, faults, filesNew, hist>>

\* thread t gets the mutex and runs its request up to the first describe
Dispatch(t) ==
    /\ ~crashed
    /\ th[t].pc = "lock"
    /\ mutex = 0
    /\ Proceed(t, IF th[t].op = "Create" /\ CreateDenied(options, db, th[t].dir)
                  THEN Done(th[t], ErrRet("EPERM"))
                  ELSE Run(db, Manifests[manifest], [th[t] EXCEPT !.pc = "run"]))
    /\ UNCHANGED <<call, cli, fugs, options, db, inodeCnt, boot, manifest, pool, faults, filesNew, hist>>

\* TakeClient in a directoryReadFromDNAx that unlocks fsys.mutex before the describe
TakeClientReleasesMutex(t) ==
    /\ ~crashed
    /\ th[t].pc = "describe"
    /\ pool > 0
    /\ pool' = pool - 1
    /\ mutex' = 0
    /\ th' = [th EXCEPT ![t].pc = "remote"]
    /\ hist' = [hist EXCEPT !.desc = Bump(@, th[t].cur.path)]
    /\ UNCHANGED <<call, cli, fugs, options, db, inodeCnt, boot, manifest, crashed, faults, filesNew>>

\* directoryReadFromDNAx: httpClient := <- fsys.httpClientPool, and the describe is sent
TakeClient(t) ==
    /\ ~crashed
    /\ th[t].pc = "describe"
    /\ pool > 0
    /\ pool' = pool - 1
    /\ th' = [th EXCEPT ![t].pc = "remote"]
    /\ hist' = [hist EXCEPT !.desc = Bump(@, th[t].cur.path)]
    /\ UNCHANGED <<call, cli, fugs, options, db, inodeCnt, boot, manifest, mutex, crashed, faults, filesNew>>

\* DescribeFails in a directoryReadFromDNAx that sets the directory to populated before
\* it looks at the error of the describe
DescribeFailsSetsPopulated(t) ==
    /\ ~crashed
    /\ th[t].pc = "remote"
    /\ LET cur == th[t].cur IN
       /\ faults < MaxFaults \/ ~RemoteFolder(cur.dInfo.projId, cur.dInfo.projFolder).exists
       /\ faults' = IF RemoteFolder(cur.dInfo.projId, cur.dInfo.projFolder).exists
                    THEN faults + 1 ELSE faults
       /\ db' = Commit(setDirectoryToPopulated(Begin(db, inodeCnt, 0), cur.dInfo.inode).st)
       /\ Proceed(t, Done([th[t] EXCEPT !.pop = [path |-> cur.path, err |-> "remote", fault |-> "none"]],
                          ErrRet("remote")))
    /\ pool' = pool + 1
    /\ hist' = [hist EXCEPT !.failed = @ \cup {th[t].cur.path}]
    /\ UNCHANGED <<call, cli, fugs, options, inodeCnt, boot, manifest, filesNew>>

\* DescribeFails in a directoryReadFromDNAx that returns the error of the describe
\* before it gives the http client back
DescribeFailsKeepsClient(t) ==
    /\ ~crashed
    /\ th[t].pc = "remote"
    /\ LET cur == th[t].cur IN
       /\ faults < MaxFaults \/ ~RemoteFolder(cur.dInfo.projId, cur.dInfo.projFolder).exists
       /\ faults' = IF RemoteFolder(cur.dInfo.projId, cur.dInfo.projFolder).exists
                    THEN faults + 1 ELSE faults
       /\ Proceed(t, Done([th[t] EXCEPT !.pop = [path |-> cur.path, err |-> "remote", fault |-> "none"]],
                          ErrRet("remote")))
    /\ hist' = [hist EXCEPT !.failed = @ \cup {th[t].cur.path}]
    /\ UNCHANGED <<call, cli, fugs, options, db, inodeCnt, boot, manifest, filesNew, pool>>

\* DxDescribeFolder fails: directoryReadFromDNAx returns the error, and so does the request
DescribeFails(t) ==
    /\ ~crashed
    /\ th[t].pc = "remote"
    /\ LET cur == th[t].cur IN
       /\ faults < MaxFaults \/ ~RemoteFolder(cur.dInfo.projId, cur.dInfo.projFolder).exists
       /\ faults' = IF RemoteFolder(cur.dInfo.projId, cur.dInfo.projFolder).exists
                    THEN faults + 1 ELSE faults
       /\ Proceed(t, Done([th[t] EXCEPT !.pop = [path |-> cur.path, err |-> "remote", fault |-> "none"]],
                          ErrRet("remote")))
    /\ pool' = pool + 1
    /\ hist' = [hist EXCEPT !.failed = @ \cup {th[t].cur.path}]
    /\ UNCHANGED <<call, cli, fugs, options, db, inodeCnt, boot, manifest, filesNew>>

\* DxDescribeFolder answers: the rest of directoryReadFromDNAx, and the request goes on
DescribeReturns(t) ==
    /\ ~crashed
    /\ th[t].pc = "remote"
    /\ LET cur   == th[t].cur
           dxDir == RemoteFolder(cur.dInfo.projId, cur.dInfo.projFolder)
       IN
       /\ dxDir.exists
       /\ \E order \in Orders(DOMAIN PosixFixDir(dxDir).fauxSubdirs),
             failAt \in -1..MaxStmts, commitOk \in BOOLEAN :
            LET Apply(r) ==
                  /\ failAt > 0 => r.n >= failAt
                  /\ ~commitOk => r.err = "ok"
                  /\ db' = r.db
                  /\ inodeCnt' = r.inodeCnt
                  /\ hist' = [hist EXCEPT
                                !.commits = IF r.committed THEN Bump(@, cur.path) ELSE @,
                                !.maxAlloc = MaxInt64(@, r.alloc)]
                  /\ Proceed(t, Resume(Manifests[manifest], [th[t] EXCEPT !.pc = "run",
                                           !.pop = [path |-> cur.path, err |-> r.err,
                                                    fault |-> FaultKind(failAt, commitOk)]],
                                         r))
            IN
            /\ FaultAllowed(failAt, commitOk)
            /\ faults' = IF Fault(failAt, commitOk) THEN faults + 1 ELSE faults
            /\ Apply(directoryReadFromDNAx(db, inodeCnt, cur.dInfo, cur.path, dxDir,
                                           order, failAt, commitOk))
    /\ pool' = pool + 1
    /\ UNCHANGED <<call, cli, fugs, options, boot, manifest, filesNew>>

\* CreateFile: httpClient := <- fsys.httpClientPool, and DxFileNew is sent for one of the
\* projects projectIdAndFolder can return
FileNewCall(t) ==
    /\ ~crashed
    /\ th[t].pc = "filenew"
    /\ pool > 0
    /\ pool' = pool - 1
    /\ \E pf \in projectIdAndFolder(Manifests[manifest], th[t].dir) :
          th' = [th EXCEPT ![t].pc = "remote2",
                           ![t].cur = [NoCur EXCEPT !.dInfo.projId = pf.projId,
                                                    !.dInfo.projFolder = pf.folder]]
    /\ UNCHANGED <<call, cli, fugs, options, db, inodeCnt, boot, manifest, mutex, crashed, faults, filesNew, hist>>

\* DxFileNew fails: CreateFile returns the error
FileNewFails(t) ==
    /\ ~crashed
    /\ th[t].pc = "remote2"
    /\ faults < MaxFaults
    /\ faults' = faults + 1
    /\ pool' = pool + 1
    /\ Proceed(t, Done(th[t], ErrRet("remote")))
    /\ UNCHANGED <<call, cli, fugs, options, db, inodeCnt, boot, manifest, filesNew, hist>>

\* DxFileNew answers with a new file id: the rest of CreateFile
FileNewReturns(t) ==
    /\ ~crashed
    /\ th[t].pc = "remote2"
    /\ pool' = pool + 1
    /\ filesNew' = filesNew + 1
    /\ \E failAt \in -1..MaxStmts, commitOk \in BOOLEAN :
        LET fileId == FileId(filesNew + 1)
            Apply(r) ==
              /\ failAt > 0 => r.n >= failAt
              /\ ~commitOk => failAt = 0
              /\ db' = r.db
              /\ inodeCnt' = r.inodeCnt
              /\ hist' = [hist EXCEPT !.maxAlloc = MaxInt64(@, r.alloc)]
              /\ fugs' = IF r.err = "ok" THEN OpenUpload(fileId, r.inodeCnt) ELSE fugs
              /\ Proceed(t, IF r.err = "panic" THEN Panic(th[t])
                            ELSE IF r.err # "ok" THEN Done(th[t], ErrRet(r.err))
                            ELSE Done(th[t], [NoRet EXCEPT !.err = "ok",
                                    !.node = [type |-> nsDataObjType,
                                              file |-> [Kind |-> FK_Regular, Id |-> fileId,
                                                        ProjId |-> th[t].cur.dInfo.projId,
                                                        Name |-> th[t].name, Size |-> 0,
                                                        Inode |-> r.inodeCnt,
                                                        Ctime |-> nowSeconds,
                                                        Mtime |-> nowSeconds, Nlink |-> 1,
                                                        InlineData |-> LocalPath]]]))
        IN
        /\ FaultAllowed(failAt, commitOk)
        /\ faults' = IF Fault(failAt, commitOk) THEN faults + 1 ELSE faults
        /\ Apply(CreateFileTxn(db, inodeCnt, th[t].cur.dInfo.projId, fileId, th[t].dir,
                               th[t].name, LocalPath, failAt, commitOk))
    /\ UNCHANGED <<call, cli, options, boot, manifest>>

Next ==
    \/ DbInit
    \/ PopulateRoot
    \/ \E t \in Threads : \E path \in ReadDirPaths(t) : StartReadDir(t, path)
    \/ \E t \in Threads : \E a \in LookupArgs(t) : StartLookup(t, a[1], a[2])
    \/ \E t \in Threads : \E a \in CreateArgs(t) : StartCreate(t, a[1], a[2])
    \/ \E t \in Threads : Dispatch(t)
    \/ \E t \in Threads : TakeClient(t)
    \/ \E t \in Threads : DescribeFails(t)
    \/ \E t \in Threads : DescribeReturns(t)
    \/ \E t \in Threads : FileNewCall(t)
    \/ \E t \in Threads : FileNewFails(t)
    \/ \E t \in Threads : FileNewReturns(t)

Spec == Init /\ [][Next]_vars

\* A mount on which both threads are asked to create the same file
NextCreate ==
    \/ DbInit
    \/ PopulateRoot
    \/ \E t \in Threads : StartCreate(t, PathA, <<"n">>)
    \/ \E t \in Threads : Dispatch(t)
    \/ \E t \in Threads : TakeClient(t)
    \/ \E t \in Threads : DescribeFails(t)
    \/ \E t \in Threads : DescribeReturns(t)
    \/ \E t \in Threads : FileNewCall(t)
    \/ \E t \in Threads : FileNewFails(t)
    \/ \E t \in Threads : FileNewReturns(t)

SpecCreate == Init /\ [][NextCreate]_vars

-----------------------------------------------------------------------------
(* A mount that serves one thread while the files it holds are written and closed: the  *)
(* upload path calls MetadataDbUpdateFile with the size and time of the local file.     *)

\* os.FileInfo of the local file at the k-th update: Size() and ModTime().Unix()
FileInfo(k) == [size |-> 7 + k, modTimeSec |-> 7 + k]

\* MetadataDbUpdateFile(f, fInfo) for a file f of the index; one transaction
UpdateFile ==
    /\ ~crashed
    /\ boot = "mounted"
    /\ hist.updates < MaxUpdates
    /\ \E o \in db.dobjs, failAt \in -1..1, commitOk \in BOOLEAN :
        LET fInfo == FileInfo(hist.updates + 1)
            Apply(r) ==
              /\ db' = r.db
              /\ hist' = [hist EXCEPT
                    !.updates = @ + 1,
                    !.updated = IF r.err # "ok" THEN @
                                ELSE [i \in DOMAIN @ \cup {o.inode} |->
                                        IF i = o.inode
                                        THEN [size |-> fInfo.size, mtime |-> fInfo.modTimeSec]
                                        ELSE @[i]]]
        IN
        /\ FaultAllowed(failAt, commitOk)
        /\ ~commitOk => failAt = 0
        /\ faults' = IF Fault(failAt, commitOk) THEN faults + 1 ELSE faults
        /\ Apply(MetadataDbUpdateFile(db, inodeCnt, o.inode, fInfo.size, fInfo.modTimeSec,
                                      failAt, commitOk))
    /\ UNCHANGED <<call, cli, fugs, options, inodeCnt, boot, manifest, mutex, pool, th, crashed,
                   filesNew>>

\* the part threshold, and the number of upload workers
PartSize   == 2
NumWorkers == 2

\* what one Write appends
WriteData == { <<"a">>, <<"b", "c">> }

\* cut what the staging file holds beyond `sliced` into the next part and enqueue it
SlicePart(u) ==
    [u EXCEPT !.parts = Append(@, SubSeq(u.data, u.sliced + 1, Len(u.data))),
              !.queue = Append(@, Len(u.parts) + 1),
              !.sliced = Len(u.data)]

\* Write(handle, offset, data) at the end of a newly created file: append to the staging
\* file; a tail that has reached the threshold becomes a part
Write ==
    /\ ~crashed
    /\ fugs.state = "Open"
    /\ fugs.writes < MaxWrites
    /\ \E data \in WriteData :
         LET u == [fugs EXCEPT !.data = @ \o data, !.writes = @ + 1] IN
         fugs' = IF Len(u.data) - u.sliced >= PartSize THEN SlicePart(u) ELSE u
    /\ UNCHANGED <<mount, call, cli>>

\* Release(handle) of the writable handle: Sealing, the remaining tail is the final part
Release ==
    /\ ~crashed
    /\ fugs.state = "Open"
    /\ fugs' = [(IF Len(fugs.data) > fugs.sliced THEN SlicePart(fugs) ELSE fugs)
                  EXCEPT !.state = "Sealing"]
    /\ UNCHANGED <<mount, call, cli>>

\* a free worker takes the part at the head of the queue
WorkerTakesPart ==
    /\ ~crashed
    /\ fugs.queue # << >>
    /\ Cardinality(fugs.inflight) < NumWorkers
    /\ fugs' = [fugs EXCEPT !.queue = Tail(@), !.inflight = @ \cup {Head(fugs.queue)}]
    /\ UNCHANGED <<mount, call, cli>>

\* the upload of part i arrives at the platform (parts in transit arrive in any order)
PartUploaded ==
    /\ ~crashed
    /\ \E i \in fugs.inflight :
         fugs' = [fugs EXCEPT
                    !.inflight = @ \ {i},
                    !.remote.arrived = Append(@, i),
                    !.remote.parts = [j \in DOMAIN @ \cup {i} |->
                                        IF j = i THEN fugs.parts[i] ELSE @[j]]]
    /\ UNCHANGED <<mount, call, cli>>

\* the upload of part i fails for good: the file is Failed
PartFails ==
    /\ ~crashed
    /\ faults < MaxFaults
    /\ faults' = faults + 1
    /\ \E i \in fugs.inflight :
         fugs' = [fugs EXCEPT !.inflight = {}, !.queue = << >>, !.state = "Failed"]
    /\ UNCHANGED <<call, cli, options, db, inodeCnt, boot, manifest, mutex, pool, th, crashed,
                   filesNew, hist>>

\* every part is up: the remote close operation is called
CloseFile ==
    /\ ~crashed
    /\ fugs.state = "Sealing"
    /\ fugs.queue = << >>
    /\ fugs.inflight = {}
    /\ fugs' = [fugs EXCEPT !.state = "Closing", !.remote.state = "closing"]
    /\ UNCHANGED <<mount, call, cli>>

\* the platform puts the parts it has together and reports the file closed
PlatformCloses ==
    /\ fugs.remote.state = "closing"
    /\ fugs' = [fugs EXCEPT !.remote.state = "closed"]
    /\ UNCHANGED <<mount, call, cli>>

\* the platform reports closed: MetadataDbUpdateFile records the size and mtime of the
\* staging file and the file is Closed; Failed if the index could not be updated
FileClosed ==
    /\ ~crashed
    /\ fugs.state = "Closing"
    /\ fugs.remote.state = "closed"
    /\ \E failAt \in -1..1, commitOk \in BOOLEAN :
        LET Apply(r) ==
              /\ db' = r.db
              /\ fugs' = [fugs EXCEPT !.state = IF r.err = "ok" THEN "Closed" ELSE "Failed"]
              /\ hist' = [hist EXCEPT
                    !.updated = IF r.err # "ok" THEN @
                                ELSE [i \in DOMAIN @ \cup {fugs.inode} |->
                                        IF i = fugs.inode
                                        THEN [size |-> Len(fugs.data), mtime |-> nowSeconds]
                                        ELSE @[i]]]
        IN
        /\ FaultAllowed(failAt, commitOk)
        /\ ~commitOk => failAt = 0
        /\ faults' = IF Fault(failAt, commitOk) THEN faults + 1 ELSE faults
        /\ Apply(MetadataDbUpdateFile(db, inodeCnt, fugs.inode, Len(fugs.data), nowSeconds,
                                      failAt, commitOk))
    /\ UNCHANGED <<call, cli, options, inodeCnt, boot, manifest, mutex, pool, th, crashed,
                   filesNew>>

NextFiles ==
    \/ DbInit
    \/ PopulateRoot
    \/ \E path \in {PathA, PathB} : StartReadDir(1, path)
    \/ \E a \in {<<PathA, <<"x">>>>, <<PathB, <<"x">>>>, <<PathA, <<"n">>>>} :
          StartLookup(1, a[1], a[2])
    \/ StartCreate(1, PathA, <<"n">>)
    \/ Dispatch(1)
    \/ TakeClient(1)
    \/ DescribeFails(1)
    \/ DescribeReturns(1)
    \/ FileNewCall(1)
    \/ FileNewFails(1)
    \/ FileNewReturns(1)
    \/ UpdateFile

SpecFiles == Init /\ [][NextFiles]_vars

\* A mount on which one thread creates a file that is then written, released and uploaded
NextUpload ==
    \/ DbInit
    \/ PopulateRoot
    \/ StartCreate(1, PathA, <<"n">>)
    \/ Dispatch(1)
    \/ TakeClient(1)
    \/ DescribeFails(1)
    \/ DescribeReturns(1)
    \/ FileNewCall(1)
    \/ FileNewFails(1)
    \/ FileNewReturns(1)
    \/ Write
    \/ Release
    \/ WorkerTakesPart
    \/ PartUploaded
    \/ PartFails
    \/ CloseFile
    \/ PlatformCloses
    \/ FileClosed

SpecUpload == Init /\ [][NextUpload]_vars

-----------------------------------------------------------------------------
(* Functions of the program called on inputs of their own, next to a mount that does    *)
(* not move: call holds the function, its arguments and, once it has run, its result.   *)

PathAB  == <<"/", "A", "B">>
PathABd == <<"/", "A", "B", "/", "d">>
PathBd  == <<"/", "B", "/", "d">>
PathAde == <<"/", "A", "/", "d", "/", "e">>

\* manifests whose base directories are apart, nested (/A and /A/d), or such that one
\* name starts with the other (/A and /AB)
BaseDirManifests ==
    LET M(ds) == [Directories |-> ds, Files |-> << >>] IN
    { M(<< MDir("pA", <<"/">>, PathA, 4, 4) >>),
      M(<< MDir("pA", <<"/">>, PathA, 4, 4), MDir("pB", <<"/">>, PathB, 4, 4) >>),
      M(<< MDir("pA", <<"/">>, PathA, 4, 4), MDir("pB", <<"/">>, PathAB, 4, 4) >>),
      M(<< MDir("pA", <<"/">>, PathA, 4, 4), MDir("pB", <<"/">>, PathAd, 4, 4) >>),
      M(<< MDir("pA", <<"/">>, PathsA, 4, 4) >>) }

Dirnames == { PathA, PathAd, PathAde, PathAB, PathABd, PathB, PathBd, PathsA, Paths }

NoProject == [projId |-> "", folder |-> EmptyStr]

\* a remote folder that holds two pairs of data objects of the same name
DupObjects ==
    { DxObj("file", "2", "pA", <<"y">>, 1, 3, 4, EmptyStr),
      DxObj("applet", "3", "pA", <<"y">>, 2, 1, 7, EmptyStr),
      DxObj("file", "4", "pA", <<"z">>, 1, 3, 4, EmptyStr),
      DxObj("file", "5", "pA", <<"z">>, 2, 1, 7, EmptyStr) }

\* the folder as DxDescribeFolder reports it, the data objects in the order listing
DupFolder(listing) == [exists |-> TRUE, dataObjects |-> listing, subdirs |-> << >>]

\* one mount's population of the folder: the order of the objects in the reply, and the
\* order in which the map of faux subdirectories is iterated
Mounts == {[listing |-> l, order |-> o] : l \in Orders(DupObjects), o \in Orders({<<"y">>, <<"z">>})}

\* the store and the inode counter after MetadataDbInit on an empty database
Initialized == MetadataDbInit(EmptyDb, NewInodeCnt, 0, TRUE)

\* the store and the inode counter after Bootstrap with the first manifest
Booted ==
    LET K(i) == MetadataDbPopulateRoot(i.db, i.inodeCnt, Manifests[1], TRUE, 0, TRUE)
    IN K(Initialized)

\* the stores MetadataDbInit can find in the database file: nothing, the schema and the
\* root of an earlier MetadataDbInit, the index of an earlier mount
StoreOf(s) ==
    IF s = "empty" THEN EmptyDb
    ELSE IF s = "initialized" THEN Initialized.db
    ELSE Booted.db

\* the names in store d: each namespace row with, for a data object, the id it stands for
StoredNames(d) ==
    {[parent |-> n.parent, name |-> n.name, obj_type |-> n.obj_type,
      ids |-> {o.id : o \in {x \in d.dobjs : x.inode = n.inode}}] : n \in d.ns}

\* directoryReadFromDNAx on /A of store b.db, given the platform's description of the folder
PopulateA(b, dxDir, order) ==
    directoryReadFromDNAx(b.db, b.inodeCnt, directoryLookup(b.db, PathA).dInfo, PathA,
                          dxDir, order, 0, TRUE)

\* the store after Bootstrap and the population of /A (file x, subdirectory d)
PopulatedA == PopulateA(Booted, RemoteFolder("pA", <<"/">>), << >>).db

\* the inode that the namespace of d gives to name in directory parent
InodeOf(d, parent, name) == (CHOOSE n \in d.ns : n.parent = parent /\ n.name = name).inode

\* a store that violates the consistency of the index in one place
Corrupt(d, violation) ==
    IF violation = "unbackedFile"
    THEN [d EXCEPT !.dobjs = {o \in @ : o.inode # InodeOf(d, PathA, <<"x">>)}]
    ELSE IF violation = "unbackedDir"
    THEN [d EXCEPT !.dirs = {r \in @ : r.inode # InodeOf(d, PathA, <<"d">>)}]
    ELSE IF violation = "unbackedRoot"
    THEN [d EXCEPT !.dirs = {r \in @ : r.inode # InodeRoot}]
    ELSE IF violation = "twoFiles"
    THEN [d EXCEPT !.dobjs = @ \cup {[o EXCEPT !.size = @ + 1] :
                                       o \in {x \in d.dobjs : x.inode = InodeOf(d, PathA, <<"x">>)}}]
    ELSE IF violation = "twoRoots"
    THEN [d EXCEPT !.ns = @ \cup {[n EXCEPT !.parent = RootPath, !.name = <<"r">>] :
                                    n \in {x \in d.ns : x.inode = InodeRoot}}]
    ELSE d

\* the requests that run into the violation of the store they are made on
Requests ==
    { [op |-> "Root",    dir |-> RootPath, name |-> EmptyStr, violation |-> "twoRoots"],
      [op |-> "Root",    dir |-> RootPath, name |-> EmptyStr, violation |-> "unbackedRoot"],
      [op |-> "ReadDir", dir |-> PathA,    name |-> EmptyStr, violation |-> "unbackedFile"],
      [op |-> "ReadDir", dir |-> PathA,    name |-> EmptyStr, violation |-> "unbackedDir"],
      [op |-> "ReadDir", dir |-> PathA,    name |-> EmptyStr, violation |-> "twoFiles"],
      [op |-> "ReadDir", dir |-> PathAd,   name |-> EmptyStr, violation |-> "unbackedDir"],
      [op |-> "Lookup",  dir |-> PathA,    name |-> <<"x">>,  violation |-> "unbackedFile"],
      [op |-> "Lookup",  dir |-> PathA,    name |-> <<"x">>,  violation |-> "twoFiles"],
      [op |-> "Lookup",  dir |-> PathA,    name |-> <<"d">>,  violation |-> "unbackedDir"] }

CallInputs ==
    {[fn |-> "GetAttrs", parent |-> a[1], name |-> a[2], done |-> FALSE, attrs |-> ZeroAttrs] :
        a \in {<<RootPath, <<"A">>>>, <<PathA, <<"d">>>>}}
    \cup
    {[fn |-> "MetadataDbUpdateFile", inode |-> i, failAt |-> fc[1], commitOk |-> fc[2],
      done |-> FALSE, err |-> "none", db |-> EmptyDb] :
        i \in 1..MaxInode, fc \in {x \in (-1..1) \X BOOLEAN : ~x[2] => x[1] = 0}}
    \cup
    {[fn |-> "MetadataDbInit", store |-> s, done |-> FALSE, err |-> "none", db |-> EmptyDb] :
        s \in {"empty", "initialized", "bootstrapped"}}
    \cup
    {[fn |-> "request", req |-> r, done |-> FALSE, out |-> "none"] : r \in Requests}
    \cup
    {[fn |-> "projectIdAndFolder", m |-> m, dirname |-> d, done |-> FALSE, panic |-> FALSE,
      ret |-> NoProject] : m \in BaseDirManifests, d \in Dirnames}
    \cup
    {[fn |-> "directoryReadFromDNAx", mounts |-> <<a, b>>, done |-> FALSE,
      ret |-> << {}, {} >>] : a \in Mounts, b \in Mounts}

InitCalls ==
    /\ InitMount
    /\ fugs = NoUpload
    /\ call \in CallInputs
    /\ cli = NoCli

\* projectIdAndFolder(dirname) with fsys.baseDir2ProjectId filled from call.m: it returns
\* at the first base directory, in the order the map is iterated, that dirname starts with
CallProjectIdAndFolder ==
    /\ call.fn = "projectIdAndFolder"
    /\ ~call.done
    /\ \/ /\ projectIdAndFolder(call.m, call.dirname) = {}
          /\ call' = [call EXCEPT !.done = TRUE, !.panic = TRUE]
       \/ \E r \in projectIdAndFolder(call.m, call.dirname) :
             call' = [call EXCEPT !.done = TRUE, !.ret = r]
    /\ UNCHANGED <<mount, fugs, cli>>

\* directoryReadFromDNAx on /A of a freshly bootstrapped store, in each of two mounts,
\* once DxDescribeFolder has answered: ret holds the names each mount has stored
CallDirectoryReadFromDNAx ==
    /\ call.fn = "directoryReadFromDNAx"
    /\ ~call.done
    /\ LET Names(b, k) ==
              StoredNames(PopulateA(b, DupFolder(call.mounts[k].listing),
                                    call.mounts[k].order).db)
           K(b) == call' = [call EXCEPT !.done = TRUE, !.ret = [k \in 1..2 |-> Names(b, k)]]
       IN K(Booted)
    /\ UNCHANGED <<mount, fugs, cli>>

\* MetadataDbRoot, MetadataDbReadDirAll or MetadataDbLookupInDir on a store with a
\* violation: out is how the call ends (panic, a value, or an ordinary error)
CallRequest ==
    /\ call.fn = "request"
    /\ ~call.done
    /\ LET r == call.req
           c == [IdleThread EXCEPT !.pc = "run", !.op = r.op, !.dir = r.dir, !.name = r.name,
                                   !.stage = IF r.op = "ReadDir" THEN "S1" ELSE "L1"]
           Out(panic, err) == IF panic THEN "panic" ELSE IF err = "ok" THEN "value" ELSE "error"
           KRoot(e) == call' = [call EXCEPT !.done = TRUE, !.out = Out(e.err = "panic", e.err)]
           KRun(e)  == call' = [call EXCEPT !.done = TRUE,
                                            !.out = Out(e.pc = "panic", e.ret.err)]
           K(d) == IF r.op = "Root" THEN KRoot(MetadataDbRoot(d))
                   ELSE KRun(Run(d, Manifests[1], c))
       IN K(Corrupt(PopulatedA, r.violation))
    /\ UNCHANGED <<mount, fugs, cli>>

\* MetadataDbInit on the store call.store, with no failure of the store itself
CallMetadataDbInit ==
    /\ call.fn = "MetadataDbInit"
    /\ ~call.done
    /\ LET K(r) == call' = [call EXCEPT !.done = TRUE, !.err = r.err, !.db = r.db]
       IN K(MetadataDbInit(StoreOf(call.store), NewInodeCnt, 0, TRUE))
    /\ UNCHANGED <<mount, fugs, cli>>

\* MetadataDbUpdateFile(f, fInfo) for inode call.inode on the store that holds /A's files
CallMetadataDbUpdateFile ==
    /\ call.fn = "MetadataDbUpdateFile"
    /\ ~call.done
    /\ LET K(r) == call' = [call EXCEPT !.done = TRUE, !.err = r.err, !.db = r.db]
       IN K(MetadataDbUpdateFile(PopulatedA, Booted.inodeCnt, call.inode, FileInfo(1).size,
                                 FileInfo(1).modTimeSec, call.failAt, call.commitOk))
    /\ UNCHANGED <<mount, fugs, cli>>

\* GetAttrs on the directory node that a lookup of (call.parent, call.name) returns
CallGetAttrs ==
    /\ call.fn = "GetAttrs"
    /\ ~call.done
    /\ LET K(r) == /\ r.err = "ok"
                   /\ r.node.type = nsDirType
                   /\ call' = [call EXCEPT !.done = TRUE, !.attrs = GetAttrs(r.node.dir)]
       IN K(fastLookup(PopulatedA, call.parent, call.name))
    /\ UNCHANGED <<mount, fugs, cli>>

NextCalls ==
    \/ CallGetAttrs
    \/ CallMetadataDbInit
    \/ CallMetadataDbUpdateFile
    \/ CallProjectIdAndFolder
    \/ CallDirectoryReadFromDNAx
    \/ CallRequest

SpecCalls == InitCalls /\ [][NextCalls]_vars

-----------------------------------------------------------------------------
(* Properties.  They speak of the committed store db, which is what a reader can see. *)

\* the full path of the directory that namespace row n stands for
PathOf(n) == IF n.parent = EmptyStr THEN n.name ELSE Clean(n.parent \o <<"/">> \o n.name)

\* the rows of the directories table that back path P
DirRows(d, P) ==
    {r \in d.dirs : \E n \in d.ns : /\ n.obj_type = nsDirType
                                    /\ n.inode = r.inode
                                    /\ PathOf(n) = P}

DirPaths(d) == {PathOf(n) : n \in {x \in d.ns : x.obj_type = nsDirType}}

IsPopulated(d, P)   == \E r \in DirRows(d, P) : r.populated = 1
IsUnpopulated(d, P) == \E r \in DirRows(d, P) : r.populated = 0
RemoteBacked(d, P)  == \E r \in DirRows(d, P) : r.proj_folder # EmptyStr

\* what the platform reports for the folder behind P
ListingOf(d, P) ==
    IF DirRows(d, P) = {} THEN NoFolder
    ELSE LET r == CHOOSE r \in DirRows(d, P) : TRUE IN RemoteFolder(r.proj_id, r.proj_folder)

\* every subfolder and every data object of the listing dx has its namespace row under P
\* (a data object that shares its name with another one: in the faux subdirectory of P)
ChildrenPresent(d, P, dx) ==
    /\ \A i \in DOMAIN dx.subdirs :
          \E n \in d.ns : n.parent = P /\ n.name = dx.subdirs[i] /\ n.obj_type = nsDirType
    /\ \A i \in DOMAIN dx.dataObjects :
          \E o \in d.dobjs : \E n \in d.ns :
             /\ o.id = dx.dataObjects[i].Id
             /\ n.inode = o.inode
             /\ n.obj_type = nsDataObjType
             /\ n.parent \in {P, Clean(P \o <<"/">> \o dx.dataObjects[i].Name)}

\* C1: every data_objects row's nlink equals the number of namespace rows whose inode is
\* that row's inode, after any sequence of Bootstrap, PopulateDirectory and CreateFile
\* calls, failed and rolled back calls included.
C1_NlinkCountsNamespaceRows ==
    \A o \in db.dobjs : o.nlink = Cardinality({n \in db.ns : n.inode = o.inode})

\* a data object linked from two directories, a created file, and a call that failed
C1_Witness ==
    /\ \E o \in db.dobjs : o.nlink = 2 /\ Cardinality({n \in db.ns : n.inode = o.inode}) = 2
    /\ \E o \in db.dobjs : o.id = FileId(1)
    /\ faults > 0

\* C2: each namespace row of type directory has exactly one directories row with the same
\* inode and no data_objects row with that inode; each namespace row of type data object
\* has exactly one data_objects row with the same inode and no directories row with it.
C2_NamespaceRowsAreBacked ==
    \A n \in db.ns :
        /\ n.obj_type \in {nsDirType, nsDataObjType}
        /\ n.obj_type = nsDirType =>
              /\ Cardinality({r \in db.dirs : r.inode = n.inode}) = 1
              /\ {r \in db.dobjs : r.inode = n.inode} = {}
        /\ n.obj_type = nsDataObjType =>
              /\ Cardinality({r \in db.dobjs : r.inode = n.inode}) = 1
              /\ {r \in db.dirs : r.inode = n.inode} = {}

\* directories of every origin (root, manifest, subfolder, faux) next to
\* data objects from the manifest, from a population and from CreateFile
C2_Witness ==
    /\ \E n \in db.ns : n.obj_type = nsDirType /\ n.parent = PathAd
    /\ \E n \in db.ns : n.obj_type = nsDataObjType /\ n.parent = Clean(PathAd \o <<"/", "y">>)
    /\ \E o \in db.dobjs : o.nlink = 2
    /\ \E o \in db.dobjs : o.id = FileId(1)

\* C3: whenever the population of a remote-backed directory P returns without error, the
\* committed index has populated(P) = true and a namespace row under P for every data
\* object and subfolder the describe reported, whatever the outcome of the store's write
\* and commit steps inside the call.
C3_PopulationReturnsPopulated ==
    \A t \in Threads :
        th[t].pop.err = "ok" =>
            /\ IsPopulated(db, th[t].pop.path)
            /\ ChildrenPresent(db, th[t].pop.path, ListingOf(db, th[t].pop.path))

\* C4: a directory with populated = true has namespace rows for all of its direct
\* children, and the children of a directory and its populated flag become visible in
\* one atomic step: a population that commits children commits populated = true too.
C4_PopulatedWithChildrenAtomically ==
    /\ [](\A P \in DirPaths(db) :
             IsPopulated(db, P) => ChildrenPresent(db, P, ListingOf(db, P)))
    /\ [][\A t \in Threads :
             (th[t].pc = "remote" /\ db' # db) => IsPopulated(db', th[t].cur.path)]_vars

\* the names directoryReadFromDNAx inserts under P for the listing dx meet a row that is
\* already under P, or one another
NameClash(d, P, dx) ==
    LET fixed == PosixFixDir(dx)
        objNames == {fixed.dataObjects[i].Name : i \in DOMAIN fixed.dataObjects}
        subNames == {fixed.subdirs[i] : i \in DOMAIN fixed.subdirs}
    IN
    \/ \E n \in d.ns : n.parent = P /\ n.name \in objNames \cup subNames \cup DOMAIN fixed.fauxSubdirs
    \/ subNames \cap (objNames \cup DOMAIN fixed.fauxSubdirs) # {}
    \/ Cardinality(subNames) # Len(fixed.subdirs)

InodesOf(d) == {r.inode : r \in d.dirs} \cup {r.inode : r \in d.dobjs}

\* C6: every inode returned by allocInodeNum is greater than every inode returned before:
\* the counter never goes back, the entries committed by a step have inodes above every
\* inode allocated before the step (in a transaction that was rolled back too), and no
\* two entries have the same inode, with concurrent requests too.
C6_InodesStrictlyIncrease ==
    /\ [][inodeCnt' >= inodeCnt]_vars
    /\ [][boot # "new" =>
            \A i \in InodesOf(db') \ InodesOf(db) : i > hist.maxAlloc /\ i <= inodeCnt']_vars
    /\ [](/\ Cardinality({r.inode : r \in db.dirs}) = Cardinality(db.dirs)
          /\ Cardinality({r.inode : r \in db.dobjs}) = Cardinality(db.dobjs)
          /\ {r.inode : r \in db.dirs} \cap {r.inode : r \in db.dobjs} = {}
          /\ \A i \in InodesOf(db) : i <= inodeCnt)

\* an inode of a transaction that was rolled back is left out, and a later one is in use
C6_Witness ==
    /\ \E i \in 2..inodeCnt : /\ i \notin InodesOf(db)
                              /\ \E j \in InodesOf(db) : j > i
    /\ \E t \in Threads : th[t].pc = "returned" /\ th[t].ret.err = "ok"

\* C7: if the describe fails during the population of P, the request returns the error
\* and no row of the index changes (P stays unpopulated); a later ReadDir or Lookup that
\* gets to P (its parent being populated) describes P again, and when the platform then
\* answers, the population goes through (the store working, the names not clashing)
\* and P is populated with its children.
C7_DescribeFailureIsRetried ==
    /\ [][\A t \in Threads :
            (th[t].pc = "remote" /\ th'[t].pop.err = "remote") =>
                /\ db' = db
                /\ th'[t].pc = "returned"
                /\ th'[t].ret.err = "remote"
                /\ ~IsPopulated(db', th[t].cur.path)]_vars
    /\ [][\A t \in Threads :
            (/\ th[t].pc = "lock" /\ th'[t].pc # "lock"
             /\ th[t].op \in {"ReadDir", "Lookup"}
             /\ th[t].dir \in hist.failed
             /\ IsUnpopulated(db, th[t].dir)
             /\ IsPopulated(db, FilepathDir(th[t].dir))) =>
                (th'[t].pc = "describe" /\ th'[t].cur.path = th[t].dir)]_vars
    /\ [][\A t \in Threads :
            (/\ th[t].pc = "remote" /\ th'[t].pc # "remote"
             /\ th[t].cur.path \in hist.failed
             /\ faults' = faults
             /\ ListingOf(db, th[t].cur.path).exists
             /\ ~NameClash(db, th[t].cur.path, ListingOf(db, th[t].cur.path))) =>
                /\ th'[t].pop = [path |-> th[t].cur.path, err |-> "ok", fault |-> "none"]
                /\ IsPopulated(db', th[t].cur.path)
                /\ ChildrenPresent(db', th[t].cur.path, ListingOf(db, th[t].cur.path))]_vars

\* the describe of a directory has failed once, and a later request has populated it
C7_Witness ==
    \E t \in Threads :
        /\ th[t].pc = "returned" /\ th[t].ret.err = "ok"
        /\ th[t].dir \in hist.failed
        /\ th[t].pop = [path |-> th[t].dir, err |-> "ok", fault |-> "none"]
        /\ IsPopulated(db, th[t].dir)
        /\ Count(hist.desc, th[t].dir) = 2

\* C8: if the population of a directory fails after its transaction has begun (a name
\* clash on a data object, subfolder or faux subdirectory, or a store error on any
\* statement), the request returns an error and the committed index is as before the call.
C8_FailedPopulationChangesNothing ==
    [][\A t \in Threads :
         (/\ th[t].pc = "remote" /\ th'[t].pc # "remote"
          /\ ListingOf(db, th[t].cur.path).exists
          /\ \/ th'[t].pop.fault = "stmt"
             \/ NameClash(db, th[t].cur.path, ListingOf(db, th[t].cur.path))) =>
            /\ th'[t].pop.err \notin {"ok", "none"}
            /\ th'[t].pc = "returned" => th'[t].ret.err \notin {"ok", "none"}
            /\ db' = db]_vars

RootRow == [parent |-> EmptyStr, name |-> RootPath, obj_type |-> nsDirType, inode |-> InodeRoot]

\* C9: after Bootstrap has returned successfully the root has inode 1, the namespace row
\* ("", "/") and populated = true; no later operation sets it back to unpopulated or
\* gives inode 1 to another entry.
C9_RootIsInodeOneAndPopulated ==
    boot = "mounted" =>
        /\ RootRow \in db.ns
        /\ \A n \in db.ns : n.inode = InodeRoot => n = RootRow
        /\ Cardinality({r \in db.dirs : r.inode = InodeRoot}) = 1
        /\ \A r \in db.dirs : r.inode = InodeRoot => r.populated = 1
        /\ \A r \in db.dobjs : r.inode # InodeRoot

\* the file system is mounted, and later requests have populated directories and
\* created a file
C9_Witness ==
    /\ boot = "mounted"
    /\ \E P \in DirPaths(db) : RemoteBacked(db, P) /\ IsPopulated(db, P)
    /\ \E o \in db.dobjs : o.id = FileId(1)
    /\ IsPopulated(db, RootPath)

\* C10 as stated: Bootstrap is all-or-nothing, a failed Bootstrap leaves the store as it
\* was before Bootstrap started, with none of Bootstrap's rows committed.
C10_BootstrapAllOrNothing ==
    boot = "failed" => db = EmptyDb

\* C10, amended: each of the two transactions of Bootstrap is all-or-nothing.  When
\* MetadataDbInit fails the store is as before Bootstrap; when MetadataDbPopulateRoot
\* fails the store is as MetadataDbInit has committed it, the schema and the unpopulated
\* root, with none of the rows of MetadataDbPopulateRoot.
C10_EachBootstrapTransactionAllOrNothing ==
    /\ [][(boot = "new" /\ boot' = "failed") => db' = EmptyDb]_vars
    /\ [][(boot = "inited" /\ boot' = "failed") => db' = db]_vars
    /\ [](boot \in {"inited", "failed"} =>
            \/ db = EmptyDb
            \/ db = [schema |-> TRUE, ns |-> {RootRow}, dobjs |-> {},
                     dirs |-> {[inode |-> InodeRoot, proj_id |-> "", proj_folder |-> EmptyStr,
                                populated |-> 0, ctime |-> nowSeconds, mtime |-> nowSeconds]}])

\* MetadataDbPopulateRoot has failed on a statement after it had created directories
C10_Witness ==
    /\ boot = "failed"
    /\ db.schema
    /\ db.ns = {RootRow}
    /\ inodeCnt > NewInodeCnt

\* C11: CreateFile(dir, name) on a populated directory in which (dir, name) already
\* exists, as a file or as a directory, returns EEXIST in the step in which it runs: it
\* sends no DxFileNew, takes no http client, allocates no inode and leaves the index as
\* it is.  (CreateFile is what a Create request calls once it is let through: the mount
\* is not read-only and the project of dir is not one with VIEW access only.)
C11_CreateExistingReturnsExists ==
    [][\A t \in Threads :
         (/\ th[t].pc = "lock" /\ th'[t].pc # "lock"
          /\ th[t].op = "Create"
          /\ ~CreateDenied(options, db, th[t].dir)
          /\ IsPopulated(db, th[t].dir)
          /\ \E n \in db.ns : n.parent = th[t].dir /\ n.name = th[t].name) =>
            /\ th'[t].pc = "returned"
            /\ th'[t].ret.err = "EEXIST"
            /\ db' = db
            /\ inodeCnt' = inodeCnt
            /\ filesNew' = filesNew
            /\ pool' = pool]_vars

\* CreateFile of the file x that the population of /A has put there has returned EEXIST
C11_Witness ==
    /\ th[1].pc = "returned" /\ th[1].op = "Create" /\ th[1].ret.err = "EEXIST"
    /\ th[1].dir = PathA /\ th[1].name = <<"x">>
    /\ IsPopulated(db, PathA)
    /\ \E n \in db.ns : n.parent = PathA /\ n.name = <<"x">> /\ n.obj_type = nsDataObjType
    /\ filesNew = 0

C13_LookupIsIdempotent ==
    \A t1, t2 \in Threads :
        (/\ filesNew = 0
         /\ th[t1].pc = "returned" /\ th[t1].op = "Lookup"
         /\ th[t2].pc = "returned" /\ th[t2].op = "Lookup"
         /\ th[t1].dir = th[t2].dir /\ th[t1].name = th[t2].name
         /\ th[t1].ret.err \in {"ok", "ENOENT"}
         /\ th[t2].ret.err \in {"ok", "ENOENT"}) =>
            th[t1].ret = th[t2].ret

\* the (name, inode) pairs of a listing that ReadDir has returned
PairsOf(ret) ==
    {<<f.Name, f.Inode>> : f \in ret.files} \cup {<<s.Dname, s.Inode>> : s \in ret.subdirs}

\* the (name, inode) pair of a node that Lookup has returned
PairOf(name, node) ==
    <<name, IF node.type = nsDirType THEN node.dir.Inode ELSE node.file.Inode>>

\* C14: for every existing directory P, the (name, inode) pairs returned by ReadDir(P)
\* are the pairs that Lookup(P, name) returns for the names of that listing: a Lookup of
\* a listed name that runs after the ReadDir (no file created, no new failure of the
\* platform or the store during the Lookup) returns the listed entry.
C14_ReadDirAgreesWithLookup ==
    [][\A t1, t2 \in Threads :
         (/\ th[t1].pc = "returned" /\ th[t1].op = "ReadDir" /\ th[t1].ret.err = "ok"
          /\ th[t2].op = "Lookup" /\ th[t2].dir = th[t1].dir
          /\ th[t2].name \in {p[1] : p \in PairsOf(th[t1].ret)}
          /\ th[t2].pc # "returned" /\ th'[t2].pc = "returned"
          /\ filesNew = 0
          /\ faults' = faults) =>
            /\ th'[t2].ret.err = "ok"
            /\ PairOf(th[t2].name, th'[t2].ret.node) \in PairsOf(th[t1].ret)]_vars

\* the names of the listing dx are all different, and so are the ids of its objects
NoDuplicates(dx) ==
    /\ Cardinality({dx.dataObjects[i].Name : i \in DOMAIN dx.dataObjects}
                   \cup {dx.subdirs[i] : i \in DOMAIN dx.subdirs})
          = Len(dx.dataObjects) + Len(dx.subdirs)
    /\ Cardinality({dx.dataObjects[i].Id : i \in DOMAIN dx.dataObjects}) = Len(dx.dataObjects)

\* C15: ReadDir of a remote-backed directory whose remote folder has no duplicate names
\* and whose objects have distinct ids returns exactly the data-object names and the
\* subfolder names of the remote folder, none missing and none extra, and the inodes it
\* returns are distinct and greater than 1.
C15_ReadDirReturnsRemoteListing ==
    \A t \in Threads :
        LET dx == ListingOf(db, th[t].dir) IN
        (/\ th[t].pc = "returned" /\ th[t].op = "ReadDir" /\ th[t].ret.err = "ok"
         /\ RemoteBacked(db, th[t].dir)
         /\ dx.exists /\ NoDuplicates(dx)
         /\ filesNew = 0) =>
            /\ {f.Name : f \in th[t].ret.files}
                  = {dx.dataObjects[i].Name : i \in DOMAIN dx.dataObjects}
            /\ {s.Dname : s \in th[t].ret.subdirs} = {dx.subdirs[i] : i \in DOMAIN dx.subdirs}
            /\ Cardinality(PairsOf(th[t].ret)) = Len(dx.dataObjects) + Len(dx.subdirs)
            /\ Cardinality({p[2] : p \in PairsOf(th[t].ret)}) = Cardinality(PairsOf(th[t].ret))
            /\ \A p \in PairsOf(th[t].ret) : p[2] > InodeRoot

\* C16 as stated: ReadDir(path) and Lookup(path, name) return ENOENT, and the process
\* keeps running, whenever no directory exists at path in the namespace (the request
\* having populated the parent where it could), also when the parent of path does not
\* exist either or when path names a data object.
C16_MissingDirectoryIsNotFound ==
    [][\A t \in Threads :
         (/\ th[t].op \in {"ReadDir", "Lookup"}
          /\ th[t].pc \in {"lock", "remote"} /\ th'[t].pc \in {"returned", "panic"}
          /\ DirRows(db', th[t].dir) = {}
          /\ th'[t].pop.err \in {"none", "ok"}) =>
            /\ th'[t].pc = "returned"
            /\ th'[t].ret.err = "ENOENT"
            /\ ~crashed']_vars

\* C16, amended: when the parent of path is a directory of the namespace and no directory
\* exists at path once the parent is populated (also when path names a data object),
\* ReadDir(path) and Lookup(path, name) return ENOENT and the process keeps running, or
\* they return the error of the parent's population when that fails; when the parent of
\* path is not a directory of the namespace, directoryExists panics.
C16_MissingDirectoryUnderKnownParent ==
    /\ [][\A t \in Threads :
            (/\ th[t].op \in {"ReadDir", "Lookup"}
             /\ th[t].pc \in {"lock", "remote"} /\ th'[t].pc \in {"returned", "panic"}
             /\ DirRows(db', th[t].dir) = {}
             /\ DirRows(db, FilepathDir(th[t].dir)) # {}) =>
               /\ th'[t].pc = "returned"
               /\ ~crashed'
               /\ th'[t].ret.err = IF th'[t].pop.err \in {"none", "ok"} THEN "ENOENT"
                                   ELSE th'[t].pop.err]_vars
    /\ [][\A t \in Threads :
            (/\ th[t].op \in {"ReadDir", "Lookup"}
             /\ th[t].pc = "lock" /\ th'[t].pc # "lock"
             /\ th[t].dir # RootPath
             /\ DirRows(db, FilepathDir(th[t].dir)) = {}) =>
               (th'[t].pc = "panic" /\ crashed')]_vars

\* ReadDir of /A/x, which names a data object of the populated directory /A, has
\* returned ENOENT, and the process runs
C16_Witness ==
    /\ th[1].pc = "returned" /\ th[1].op = "ReadDir" /\ th[1].dir = PathAx
    /\ th[1].ret.err = "ENOENT"
    /\ IsPopulated(db, PathA)
    /\ \E n \in db.ns : n.parent = PathA /\ n.name = <<"x">> /\ n.obj_type = nsDataObjType
    /\ ~crashed

\* C17: at most one data_objects row exists per remote id.  When the same remote id is
\* inserted under a second (parent, name), no new inode is allocated (a step that commits
\* allocates as many inodes as it adds rows to data_objects and directories), the
\* namespace entries of the id carry the same inode, and Lookup through either name
\* returns the same inode, size and nlink.
C17_OneRowPerRemoteId ==
    /\ [](\A o1, o2 \in db.dobjs : o1.id = o2.id => o1 = o2)
    /\ [][(boot = "mounted" /\ db' # db) =>
            inodeCnt' - inodeCnt = Cardinality(InodesOf(db') \ InodesOf(db))]_vars
    /\ [](\A n1, n2 \in {n \in db.ns : n.obj_type = nsDataObjType} :
            LET l1 == fastLookup(db, n1.parent, n1.name)
                l2 == fastLookup(db, n2.parent, n2.name)
            IN /\ l1.err = "ok" /\ l1.node.type = nsDataObjType
               /\ l2.err = "ok" /\ l2.node.type = nsDataObjType
               /\ l1.node.file.Id = l2.node.file.Id =>
                     /\ n1.inode = n2.inode
                     /\ l1.node.file.Inode = l2.node.file.Inode
                     /\ l1.node.file.Size = l2.node.file.Size
                     /\ l1.node.file.Nlink = l2.node.file.Nlink)

\* the file of the manifest in /B has been found again by the population of /A: one row,
\* two names, and Lookup through either name returns inode and nlink 2 of that row
C17_Witness ==
    LET l1 == fastLookup(db, PathA, <<"x">>)
        l2 == fastLookup(db, PathB, <<"x">>)
    IN /\ l1.err = "ok" /\ l2.err = "ok"
       /\ l1.node.type = nsDataObjType /\ l2.node.type = nsDataObjType
       /\ l1.node.file.Id = l2.node.file.Id
       /\ l1.node.file.Inode = l2.node.file.Inode
       /\ l1.node.file.Nlink = 2
       /\ Cardinality(db.dobjs) = 1

\* the threads whose remote call (DxDescribeFolder, DxFileNew) is in progress
InRemoteCall == {t \in Threads : th[t].pc \in {"remote", "remote2"}}

C19_ClientsReturnToThePool ==
    /\ [](pool + Cardinality(InRemoteCall) = HttpClientPoolSize)
    /\ [](pool >= 0 /\ Cardinality(InRemoteCall) <= HttpClientPoolSize)
    /\ [][\A t \in Threads :
            (t \in InRemoteCall /\ th'[t].pc \notin {"remote", "remote2"}) =>
                pool' = pool + 1]_vars
    /\ [][\A t \in Threads :
            (th[t].pc \in {"describe", "filenew"} /\ th'[t].pc \in {"remote", "remote2"}) =>
                pool' = pool - 1]_vars

\* a describe and a DxFileNew have failed, a population has gone through, no call is in
\* progress and the pool is full
C19_Witness ==
    /\ hist.failed # {}
    /\ th[1].pc = "returned" /\ th[1].op = "Create" /\ th[1].ret.err = "remote"
    /\ th[2].pc = "returned" /\ th[2].ret.err = "ok"
    /\ InRemoteCall = {}
    /\ pool = HttpClientPoolSize

\* C20: no DxDescribeFolder is ever issued for a directory whose project id is empty (the
\* root and the scaffolding directories of the manifest): a describe that is waiting or
\* in progress is for a directory with a project, so is every describe made so far, and
\* ReadDir and Lookup on a directory without project return in the step in which they
\* run, from the index alone.
C20_NoDescribeWithoutProject ==
    /\ [](\A t \in Threads :
            th[t].pc \in {"describe", "remote"} => th[t].cur.dInfo.projId # "")
    /\ [](\A P \in DOMAIN hist.desc : \E r \in DirRows(db, P) : r.proj_id # "")
    /\ [][\A t \in Threads :
            (/\ th[t].pc = "lock" /\ th'[t].pc # "lock"
             /\ th[t].op \in {"ReadDir", "Lookup"}
             /\ \E r \in DirRows(db, th[t].dir) : r.proj_id = "") =>
               /\ th'[t].pc = "returned"
               /\ th'[t].ret.err \in {"ok", "ENOENT"}
               /\ pool' = pool
               /\ db' = db
               /\ hist' = hist]_vars

\* Lookup of A in the scaffolding directory /s has returned the directory /s/A from the
\* index; /s/A has been described, /s and the root have not
C20_Witness ==
    /\ th[1].pc = "returned" /\ th[1].op = "Lookup" /\ th[1].dir = Paths
    /\ th[1].ret.err = "ok" /\ th[1].ret.node.type = nsDirType
    /\ \E r \in DirRows(db, Paths) : r.proj_id = "" /\ r.populated = 1
    /\ Count(hist.desc, PathsA) >= 1
    /\ Count(hist.desc, Paths) = 0 /\ Count(hist.desc, RootPath) = 0

\* the least creation time and the greatest modification time among the data objects of
\* the listing dx (which has at least one)
MinCtime(dx) ==
    CHOOSE c \in {dx.dataObjects[i].CtimeSeconds : i \in DOMAIN dx.dataObjects} :
        \A i \in DOMAIN dx.dataObjects : c <= dx.dataObjects[i].CtimeSeconds
MaxMtime(dx) ==
    CHOOSE c \in {dx.dataObjects[i].MtimeSeconds : i \in DOMAIN dx.dataObjects} :
        \A i \in DOMAIN dx.dataObjects : c >= dx.dataObjects[i].MtimeSeconds

\* C21: once a remote-backed directory P whose folder holds at least one data object has
\* been populated, the directories row of P has ctime equal to the least ctime of the
\* data objects of the folder and mtime equal to their greatest mtime.
C21_DirectoryTimesFromDataObjects ==
    \A P \in DirPaths(db) :
        (/\ IsPopulated(db, P)
         /\ RemoteBacked(db, P)
         /\ Len(ListingOf(db, P).dataObjects) > 0) =>
            \A r \in DirRows(db, P) : /\ r.ctime = MinCtime(ListingOf(db, P))
                                      /\ r.mtime = MaxMtime(ListingOf(db, P))

\* base directory p is dirname s or one of its ancestors
PathPrefix(p, s) == s = p \/ HasPrefix(s, p \o <<"/">>)

\* the base directories of manifest m that hold dirname
BasesOf(m, dirname) == {e \in baseDir2ProjectId(m) : PathPrefix(e.baseDir, dirname)}

LongestBase(m, dirname) ==
    CHOOSE e \in BasesOf(m, dirname) :
        \A f \in BasesOf(m, dirname) : Len(f.baseDir) <= Len(e.baseDir)

\* C22: for a directory under one of the manifest's base directories, projectIdAndFolder
\* returns the project of the longest base directory that is a path prefix of it, and
\* what is left of the path (at least "/") as the folder; hence the same on every call.
C22_ProjectOfLongestBaseDirectory ==
    (/\ call.fn = "projectIdAndFolder"
     /\ call.done
     /\ BasesOf(call.m, call.dirname) # {}) =>
        LET e == LongestBase(call.m, call.dirname) IN
        /\ ~call.panic
        /\ call.ret.projId = e.projId
        /\ call.ret.folder = IF call.dirname = e.baseDir THEN <<"/">>
                             ELSE SubSeq(call.dirname, Len(e.baseDir) + 1, Len(call.dirname))

FilesOf(ret) ==
    (IF ret.node.type = nsDataObjType THEN {ret.node.file} ELSE {}) \cup ret.files

\* C24: after MetadataDbUpdateFile has returned successfully for an inode, every Lookup
\* and every ReadDir that returns afterwards with a file of that inode, under whichever
\* of its names, reports the size and the mtime of the last such update.
C24_UpdateVisibleToLaterReads ==
    [][\A t \in Threads :
         (/\ th[t].pc # "returned"
          /\ th'[t].pc = "returned"
          /\ th'[t].op \in {"Lookup", "ReadDir"}
          /\ th'[t].ret.err = "ok") =>
            \A f \in FilesOf(th'[t].ret) :
                f.Inode \in DOMAIN hist.updated =>
                    /\ f.Size = hist.updated[f.Inode].size
                    /\ f.Mtime = hist.updated[f.Inode].mtime]_vars

\* a Lookup in /A that returned a file with two names (one in /B from the manifest, one
\* in /A from the population) after the update of its inode
C24_Witness ==
    /\ th[1].pc = "returned"
    /\ th[1].op = "Lookup"
    /\ th[1].dir = PathA
    /\ th[1].ret.err = "ok"
    /\ th[1].ret.node.type = nsDataObjType
    /\ th[1].ret.node.file.Nlink = 2
    /\ th[1].ret.node.file.Inode \in DOMAIN hist.updated
    /\ th[1].ret.node.file.Size = FileInfo(1).size
    /\ \E n \in db.ns : n.parent = PathB /\ n.inode = th[1].ret.node.file.Inode

\* what a download of the closed file returns: its parts put together in index order
RECURSIVE Assemble(_, _)
Assemble(parts, i) ==
    IF i \notin DOMAIN parts THEN EmptyStr ELSE parts[i] \o Assemble(parts, i + 1)

-----------------------------------------------------------------------------
(* The command: main() of the launcher, and of the daemon that it starts with          *)
(* exec.Command(progPath). Both processes run the same main(); "l" is the process the  *)
(* user starts, "d" the subprocess whose stderr is the launcher's ready pipe.          *)

Procs == {"l", "d"}

\* the number of positional arguments of the command line, up to MOUNTPOINT P1 P2
MaxArgs == 3

NoProc ==
    [pc |-> "none", nargs |-> 0, help |-> FALSE, version |-> FALSE, exit |-> -1,
     mountTried |-> FALSE, mounted |-> FALSE, shutdownCalled |-> FALSE,
     ready |-> FALSE, mountOk |-> FALSE]

\* a process at the start of main(): flag.Parse() has counted its arguments
Started(nargs, help, version) ==
    [NoProc EXCEPT !.pc = "main", !.nargs = nargs, !.help = help, !.version = version]

\* the command lines a user gives, with or without a configuration file left by an
\* earlier run
CommandLines ==
    { [l |-> Started(n, h, v), d |-> NoProc, configFile |-> cf, pipe |-> "empty"] :
        n \in 0..MaxArgs, h \in BOOLEAN, v \in BOOLEAN, cf \in BOOLEAN }

InitLauncher ==
    /\ InitMount
    /\ fugs = NoUpload
    /\ call = NoCall
    /\ cli \in CommandLines

\* os.Exit(code), or the return from main (code 0)
Exit(c, p, code) == [c EXCEPT ![p].pc = "exited", ![p].exit = code]

\* a write to os.Stderr: the daemon's stderr is the pipe, and waitForReady reads the pipe
\* once, so the first thing written is the status
Stderr(c, p, text) == IF p = "d" /\ c.pipe = "empty" THEN [c EXCEPT !.pipe = text] ELSE c

Goto(c, p, pc) == [c EXCEPT ![p].pc = pc]

\* main: flag.NArg() == 1 runs the daemon, anything else the launcher
Main(p) ==
    /\ cli[p].pc = "main"
    /\ cli' = Goto(cli, p, IF cli[p].nargs = 1 THEN "configFileRead" ELSE "parseCmdLineArgs")
    /\ UNCHANGED <<mount, fugs, call>>

\* parseCmdLineArgs: --version, --help, the number of arguments, the environment
ParseCmdLineArgs(p) ==
    /\ cli[p].pc = "parseCmdLineArgs"
    /\ \E envOk \in BOOLEAN :
         cli' = IF cli[p].version THEN Exit(cli, p, 0)
                ELSE IF cli[p].help THEN Exit(Stderr(cli, p, "other"), p, 0)
                ELSE IF cli[p].nargs < 2 THEN Exit(Stderr(cli, p, "other"), p, 2)
                ELSE IF ~envOk THEN Exit(Stderr(cli, p, "other"), p, 1)
                ELSE Goto(cli, p, "parseManifest")
    /\ UNCHANGED <<mount, fugs, call>>

\* parseManifest returns a manifest, or an error or nil
ParseManifest(p) ==
    /\ cli[p].pc = "parseManifest"
    /\ \E ok \in BOOLEAN :
         cli' = IF ok THEN Goto(cli, p, "configFileWrite")
                ELSE Exit(Stderr(cli, p, "other"), p, 1)
    /\ UNCHANGED <<mount, fugs, call>>

\* configFileWrite(cfg, dxfuse.ConfigFile)
ConfigFileWrite(p) ==
    /\ cli[p].pc = "configFileWrite"
    /\ \E ok \in BOOLEAN :
         cli' = IF ok THEN [Goto(cli, p, "start") EXCEPT !.configFile = TRUE]
                ELSE Exit(Stderr(cli, p, "other"), p, 1)
    /\ UNCHANGED <<mount, fugs, call>>

\* os.Pipe, exec.LookPath, exec.Command(progPath) with no arguments, mountCmd.Start
StartDaemon(p) ==
    /\ cli[p].pc = "start"
    /\ cli.d.pc = "none"
    /\ \E ok \in BOOLEAN :
         cli' = IF ok THEN [Goto(cli, p, "waitForReady") EXCEPT !.d = Started(0, FALSE, FALSE)]
                ELSE Exit(Stderr(cli, p, "other"), p, 1)
    /\ UNCHANGED <<mount, fugs, call>>

\* status := <-readyChan: the launcher returns if the status starts with "ready"
WaitForReady(p) ==
    /\ cli[p].pc = "waitForReady"
    /\ cli.pipe # "empty"
    /\ cli' = Exit(cli, p, IF cli.pipe = "ready" THEN 0 ELSE 1)
    /\ UNCHANGED <<mount, fugs, call>>

\* runAsDaemonWithRootPermisions: read the configuration file
ConfigFileRead(p) ==
    /\ cli[p].pc = "configFileRead"
    /\ \E ok \in BOOLEAN :
         cli' = IF cli.configFile /\ ok THEN Goto(cli, p, "NewDxfuse")
                ELSE Exit(Stderr(cli, p, "other"), p, 1)
    /\ UNCHANGED <<mount, fugs, call>>

\* fsDaemon: NewDxfuse; its error is returned, written to stderr, and the exit code is 1
NewDxfuse(p) ==
    /\ cli[p].pc = "NewDxfuse"
    /\ \E ok \in BOOLEAN :
         cli' = IF ok THEN Goto(cli, p, "Mount")
                ELSE Exit(Stderr(cli, p, "other"), p, 1)
    /\ UNCHANGED <<mount, fugs, call>>

\* fsDaemon: "Ready" is written to stderr, then fuse.Mount; its error is logged only
Mount(p) ==
    /\ cli[p].pc = "Mount"
    /\ \E ok \in BOOLEAN :
         cli' = [Goto(Stderr(cli, p, "ready"), p, "Join")
                   EXCEPT ![p].ready = TRUE, ![p].mountTried = TRUE, ![p].mounted = ok,
                          ![p].mountOk = ok]
    /\ UNCHANGED <<mount, fugs, call>>

\* fsDaemon: mfs.Join returns when the filesystem is unmounted. Its error ends the
\* process in logger.Fatalf. After a failed Mount, mfs is what Mount returned with its
\* error: Join on it panics (exit code 2) or reports an error, or never returns.
Join(p) ==
    /\ cli[p].pc = "Join"
    /\ \E err \in BOOLEAN, nilMfs \in BOOLEAN :
         cli' = IF cli[p].mounted
                THEN IF err THEN Exit([cli EXCEPT ![p].mounted = FALSE], p, 1)
                     ELSE [Goto(cli, p, "Shutdown") EXCEPT ![p].mounted = FALSE]
                ELSE Exit(cli, p, IF nilMfs THEN 2 ELSE 1)
    /\ UNCHANGED <<mount, fugs, call>>

\* fsDaemon: fsys.Shutdown(), return nil; runAsDaemonWithRootPermisions and main return
Shutdown(p) ==
    /\ cli[p].pc = "Shutdown"
    /\ cli' = Exit([cli EXCEPT ![p].shutdownCalled = TRUE], p, 0)
    /\ UNCHANGED <<mount, fugs, call>>

\* the subprocess is killed, or dies, without having written anything: the write end of
\* the pipe that the launcher holds (errorWriter, closed when main returns) stays open
Crash(p) ==
    /\ p = "d"
    /\ cli[p].pc \notin {"none", "exited"}
    /\ cli.pipe = "empty"
    /\ cli' = Exit(cli, p, 137)
    /\ UNCHANGED <<mount, fugs, call>>

NextLauncher ==
    \E p \in Procs :
        \/ Crash(p)
        \/ Main(p)
        \/ ParseCmdLineArgs(p)
        \/ ParseManifest(p)
        \/ ConfigFileWrite(p)
        \/ StartDaemon(p)
        \/ WaitForReady(p)
        \/ ConfigFileRead(p)
        \/ NewDxfuse(p)
        \/ Mount(p)
        \/ Join(p)
        \/ Shutdown(p)

SpecLauncher == InitLauncher /\ [][NextLauncher]_vars

\* every process that can take a step does take one
SpecLauncherFair == SpecLauncher /\ \A p \in Procs : WF_vars(NextLauncher /\ cli'[p] # cli[p])

\* C26: a daemon that has attempted the mount does not exit without having called
\* Shutdown, whether Mount and Join succeeded or reported an error.
C26_ShutdownBeforeExit ==
    \A p \in Procs :
        (cli[p].pc = "exited" /\ cli[p].mountTried) => cli[p].shutdownCalled

\* a usage error: fewer than two positional arguments, and neither --help nor --version
UsageError(proc) == proc.nargs < 2 /\ ~proc.help /\ ~proc.version

\* C27: the command the user runs exits with 0, 1 or 2, and with 2 exactly when its
\* command line is a usage error.
C27_ExitCodeTwoIsUsageError ==
    cli.l.pc = "exited" =>
        /\ cli.l.exit \in {0, 1, 2}
        /\ cli.l.exit = 2 <=> UsageError(cli.l)

\* C28: when ReadDir or Lookup returns a result for a directory D other than the root,
\* the parent of D has a row in the index and that row has populated = 1.
C28_ParentPopulatedBeforeAccess ==
    \A t \in Threads :
        (/\ th[t].pc = "returned"
         /\ th[t].op \in {"ReadDir", "Lookup"}
         /\ th[t].ret.err = "ok"
         /\ th[t].dir # RootPath) =>
            IsPopulated(db, FilepathDir(th[t].dir))

\* C29: a Root, ReadDir or Lookup call that runs into a consistency violation of the
\* index (two rows for one key, a namespace row whose inode has no row behind it) ends
\* in a panic; it returns neither a value nor an ordinary error.
C29_ConsistencyViolationsAreFatal ==
    (call.fn = "request" /\ call.done) => call.out = "panic"

\* C30: MetadataDbInit on a store that already has the schema and the root rows succeeds,
\* and leaves the rows of the store as they were, with one root.
C30_BootstrapOnExistingStore ==
    (call.fn = "MetadataDbInit" /\ call.done /\ StoreOf(call.store).schema) =>
        /\ call.err = "ok"
        /\ call.db = StoreOf(call.store)
        /\ Cardinality({n \in call.db.ns : n.inode = InodeRoot}) = 1

\* C31: a process has written Ready to its stderr only if its mount has succeeded, so the
\* launcher that reads Ready and exits with 0 has a mounted filesystem.
C31_ReadyOnlyAfterMount ==
    \A p \in Procs : cli[p].ready => cli[p].mountOk

\* the steps of main that only the launcher is meant to take
LauncherPath == {"parseCmdLineArgs", "parseManifest", "configFileWrite", "start", "waitForReady"}

\* C32: the subprocess that the launcher starts takes the daemon path of main, never the
\* launcher's path, and it does not end in the usage error.
C32_SubprocessTakesDaemonPath ==
    /\ cli.d.pc \notin LauncherPath
    /\ cli.d.pc = "exited" => cli.d.exit # 2

\* C33: a launcher that waits for the status of its subprocess exits in the end, whatever
\* the subprocess does, and it exits with 0 only if the status it read is Ready.
C33_LauncherTerminates ==
    /\ (cli.l.pc = "waitForReady") ~> (cli.l.pc = "exited")
    /\ [][(cli.l.pc = "waitForReady" /\ cli'.l.pc = "exited" /\ cli'.l.exit = 0)
            => cli.pipe = "ready"]_vars

\* C34: with a manifest that declares file x in the remote-backed directory /s/A, a
\* ReadDir of /s/A during which nothing fails on the platform or in the store returns a
\* listing: the directory is populated, the name x has one namespace entry, and the nlink
\* of the object is the number of its namespace entries.
C34_ManifestFileInBackedDirectory ==
    \A t \in Threads :
        (/\ manifest = 3
         /\ faults = 0
         /\ th[t].pc = "returned"
         /\ th[t].op = "ReadDir"
         /\ th[t].dir = PathsA) =>
            /\ th[t].ret.err = "ok"
            /\ IsPopulated(db, PathsA)
            /\ Cardinality({n \in db.ns : n.parent = PathsA /\ n.name = <<"x">>}) = 1
            /\ \A o \in db.dobjs :
                  o.id = <<"file", "1">> =>
                      o.nlink = Cardinality({n \in db.ns : n.inode = o.inode})

\* the namespace entries of name in directory dir
Entries(d, dir, name) == {n \in d.ns : n.parent = dir /\ n.name = name}

C36_CreateOutsideProjectsIsAnError ==
    [][\A t \in Threads :
         (/\ th[t].op = "Create"
          /\ th[t].pc \notin {"returned", "panic"}
          /\ th'[t].pc \in {"returned", "panic"}
          /\ projectIdAndFolder(Manifests[manifest], th[t].dir) = {}) =>
            /\ th'[t].pc = "returned"
            /\ th'[t].ret.err # "ok"
            /\ ~crashed'
            /\ db' = db]_vars

\* C37: MetadataDbUpdateFile for an inode leaves the namespace and the directories table
\* as they are and keeps every data_objects row, up to the size and the mtime of the row
\* with that inode; on success that row has the new size and mtime; and if no row has
\* the inode the store is unchanged.
C37_UpdateFileChangesSizeAndMtimeOnly ==
    (call.fn = "MetadataDbUpdateFile" /\ call.done) =>
        LET before == PopulatedA
            after  == call.db
            hit    == {o \in before.dobjs : o.inode = call.inode}
        IN /\ after.schema = before.schema
           /\ after.ns = before.ns
           /\ after.dirs = before.dirs
           /\ after.dobjs \in
                { before.dobjs,
                  (before.dobjs \ hit) \cup
                     {[o EXCEPT !.size = FileInfo(1).size, !.mtime = FileInfo(1).modTimeSec] :
                         o \in hit} }
           /\ call.err = "ok" =>
                 \A o \in after.dobjs :
                     o.inode = call.inode =>
                         o.size = FileInfo(1).size /\ o.mtime = FileInfo(1).modTimeSec
           /\ hit = {} => after = before

\* the update of file x of /A has succeeded and its row has changed
C37_Witness ==
    /\ call.fn = "MetadataDbUpdateFile"
    /\ call.done
    /\ call.err = "ok"
    /\ call.inode = InodeOf(PopulatedA, PathA, <<"x">>)
    /\ call.db # PopulatedA
    /\ \E o \in call.db.dobjs : o.inode = call.inode /\ o.size = FileInfo(1).size /\ o.nlink = 1

\* C38: GetAttrs on a directory node returns the ctime and the mtime of the directory's
\* row in the index, with the mode of a directory.
C38_DirAttrsCarryTheRecordTimes ==
    (call.fn = "GetAttrs" /\ call.done) =>
        \E r \in DirRows(PopulatedA, Clean(call.parent \o <<"/">> \o call.name)) :
            /\ call.attrs.Ctime = r.ctime
            /\ call.attrs.Mtime = r.mtime
            /\ "ModeDir" \in call.attrs.Mode

====
